---- MODULE Spec2Model ----
(***************************************************************************)
(* A model of the string_iter crate: the UTF-8 decoder of StringIter       *)
(* (iter_fns.rs), the Pattern trait and its built-in implementations       *)
(* (pattern.rs, interval.rs), the slicing engine (slice.rs) and the        *)
(* splitting engine (split.rs) and the merging of views (merge.rs).         *)
(*                                                                         *)
(* A text is the byte sequence `text`; a &str is the pair (ptr, len) of a  *)
(* byte offset into `text` and a byte length, as in Rust.  Every decoder   *)
(* reads bytes and does the arithmetic of the source on them.              *)
(***************************************************************************)
EXTENDS Integers, Sequences, FiniteSets, TLC

VARIABLES
    cps,      \* the chars the caller's text was built from
    text,     \* the bytes of the caller's text (the buffer all views borrow)
    str,      \* StringIter.str / SplitIter.str.str: the cursor, [ptr, len]
    fronts,   \* the items next_char() has returned so far, in call order
    backs,    \* the items next_char_back() has returned so far, in call order
    pat,      \* SplitIter.pat: the pattern a split sequence owns
    count,    \* SplitIter.count
    mode,     \* "iter": a StringIter; "split": consumed into a SplitIter; "ub"
    last,     \* the last call: its name, arguments, cursor before it, result
    parent,   \* MergeIter.parent
    iter,     \* MergeIter.iter: the views it is given and how many it has taken
    predicate, \* MergeIter.predicate
    lookahead, \* LookAhead.look_ahead
    tests     \* the calls of the pattern's test a SplitIter has made so far

vars == <<cps, text, str, fronts, backs, pat, count, mode, last,
          parent, iter, predicate, lookahead, tests>>

(***************************************************************************)
(* Bounds of the model.                                                    *)
(***************************************************************************)
MaxChars == 3      \* texts hold at most MaxChars chars
MaxPeek == 4       \* peekn / peekn_back are called with n in 0..MaxPeek
MaxCount == 4      \* a split sequence is asked for at most MaxCount items
MaxErrAt == 3      \* a fallible closure fails at call 1..MaxErrAt, or never
MaxIntervalChars == 7  \* the texts split by an Interval hold at most this many chars
MaxAdv == 4        \* an Interval is made with an offset in -MaxAdv..MaxAdv
MaxSplits == 8     \* a sequence split by an Interval is asked for at most MaxSplits items
MaxMergeChars == 2 \* the texts whose views are merged hold at most MaxMergeChars chars
MaxViews == 3      \* at most MaxViews views are given to merge_all / merge_by

(***************************************************************************)
(* Program constants (iter_fns.rs).                                        *)
(***************************************************************************)
B6 == 63
B5 == 31
B4 == 15
B3 == 7


(***************************************************************************)
(* Bit operations on bytes, by arithmetic.                                 *)
(***************************************************************************)
\* x & m for a mask m = 2^k - 1
AndLow(x, m) == x % (m + 1)
\* x & m for a byte x and a mask m = 256 - 2^k (the high bits of a byte)
AndHigh(x, m) == x - (x % (256 - m))
\* x << 6
Shl6(x) == x * 64
\* a | b where a is a multiple of 64 and b < 64
Or6(a, b) == a + b

\* one char of each UTF-8 length: 'a', U+00E9, U+87F9, U+1F600
Alphabet == {97, 233, 34809, 128512}

(***************************************************************************)
(* The caller's text: Rust's encoding of a char sequence as UTF-8.         *)
(***************************************************************************)
len_utf8(c) ==
    IF c < 128 THEN 1 ELSE IF c < 2048 THEN 2 ELSE IF c < 65536 THEN 3 ELSE 4

encode_utf8(c) ==
    IF c < 128 THEN <<c>>
    ELSE IF c < 2048 THEN <<192 + (c \div 64), 128 + (c % 64)>>
    ELSE IF c < 65536 THEN
        <<224 + (c \div 4096), 128 + ((c \div 64) % 64), 128 + (c % 64)>>
    ELSE
        <<240 + (c \div 262144), 128 + ((c \div 4096) % 64),
          128 + ((c \div 64) % 64), 128 + (c % 64)>>

RECURSIVE Utf8(_)
Utf8(cs) ==
    IF cs = <<>> THEN <<>> ELSE encode_utf8(Head(cs)) \o Utf8(Tail(cs))

\* the slicing and splitting engines are run over three of them
SliceAlphabet == {97, 233, 128512}

CharSeqs(alphabet) == UNION {[1..n -> alphabet] : n \in 0..MaxChars}

(***************************************************************************)
(* &str values.                                                            *)
(***************************************************************************)
View(p, n) == [ptr |-> p, len |-> n]

\* s.as_bytes().get_unchecked(i)
Byte(s, i) == text[s.ptr + i + 1]

\* s.get_unchecked(a..b), s.get_unchecked(a..), s.get_unchecked(..b)
Sub(s, a, b) == View(s.ptr + a, b - a)
SubFrom(s, a) == View(s.ptr + a, s.len - a)
SubTo(s, b) == View(s.ptr, b)

\* the bytes a view borrows
Bytes(s) == SubSeq(text, s.ptr + 1, s.ptr + s.len)

None == [tag |-> "None"]
Some(c, s) == [tag |-> "Some", c |-> c, s |-> s]
Ok(s) == [tag |-> "Ok", s |-> s]
Err(s) == [tag |-> "Err", s |-> s]

(***************************************************************************)
(* iter_fns.rs: the decoder.                                               *)
(***************************************************************************)
s2c1(s) == Byte(s, 0)

s2c2(s) == Or6(Shl6(AndLow(Byte(s, 0), B5)), AndLow(Byte(s, 1), B6))

s2c3(s) ==
    Or6(Shl6(Or6(Shl6(AndLow(Byte(s, 0), B4)), AndLow(Byte(s, 1), B6))),
        AndLow(Byte(s, 2), B6))

s2c4(s) ==
    Or6(Shl6(Or6(Shl6(Or6(Shl6(AndLow(Byte(s, 0), B3)),
                          AndLow(Byte(s, 1), B6))),
                 AndLow(Byte(s, 2), B6))),
        AndLow(Byte(s, 3), B6))

\* StringIter::next_char: [res, str] the item and the cursor after the call
next_char(s) ==
    IF s.len = 0 THEN [res |-> None, str |-> s]
    ELSE LET x == Byte(s, 0) IN
        IF x < 128 THEN
            LET result == SubTo(s, 1) IN
            [res |-> Some(s2c1(result), result), str |-> SubFrom(s, 1)]
        ELSE IF x < 224 THEN
            LET result == SubTo(s, 2) IN
            [res |-> Some(s2c2(result), result), str |-> SubFrom(s, 2)]
        ELSE IF x < 240 THEN
            LET result == SubTo(s, 3) IN
            [res |-> Some(s2c3(result), result), str |-> SubFrom(s, 3)]
        ELSE
            LET result == SubTo(s, 4) IN
            [res |-> Some(s2c4(result), result), str |-> SubFrom(s, 4)]

\* next_char_back decoding a 3-byte char with the 2-byte decoder
next_char_back_s2c2(s) ==
    IF s.len = 0 THEN [res |-> None, str |-> s]
    ELSE LET index == s.len - 1 IN
        IF Byte(s, index) < 128 THEN
            LET result == SubFrom(s, index) IN
            [res |-> Some(s2c1(result), result), str |-> SubTo(s, index)]
        ELSE IF AndHigh(Byte(s, index - 1), 192) = 192 THEN
            LET result == SubFrom(s, index - 1) IN
            [res |-> Some(s2c2(result), result), str |-> SubTo(s, index - 1)]
        ELSE IF AndHigh(Byte(s, index - 2), 224) = 224 THEN
            LET result == SubFrom(s, index - 2) IN
            [res |-> Some(s2c2(result), result), str |-> SubTo(s, index - 2)]
        ELSE
            LET result == SubFrom(s, index - 3) IN
            [res |-> Some(s2c4(result), result), str |-> SubTo(s, index - 3)]

\* StringIter::next_char_back
next_char_back(s) ==
    IF s.len = 0 THEN [res |-> None, str |-> s]
    ELSE LET index == s.len - 1 IN
        IF Byte(s, index) < 128 THEN
            LET result == SubFrom(s, index) IN
            [res |-> Some(s2c1(result), result), str |-> SubTo(s, index)]
        ELSE IF AndHigh(Byte(s, index - 1), 192) = 192 THEN
            LET result == SubFrom(s, index - 1) IN
            [res |-> Some(s2c2(result), result), str |-> SubTo(s, index - 1)]
        ELSE IF AndHigh(Byte(s, index - 2), 224) = 224 THEN
            LET result == SubFrom(s, index - 2) IN
            [res |-> Some(s2c3(result), result), str |-> SubTo(s, index - 2)]
        ELSE
            LET result == SubFrom(s, index - 3) IN
            [res |-> Some(s2c4(result), result), str |-> SubTo(s, index - 3)]

\* peek without the 4-byte case: every leading byte from 0xE0 on is 3 bytes
peek_no_4byte(s) ==
    IF s.len = 0 THEN None
    ELSE LET x == Byte(s, 0) IN
        IF x < 128 THEN LET result == SubTo(s, 1) IN Some(s2c1(result), result)
        ELSE IF x < 224 THEN LET result == SubTo(s, 2) IN Some(s2c2(result), result)
        ELSE LET result == SubTo(s, 3) IN Some(s2c3(result), result)

\* StringIter::peek
peek(s) ==
    IF s.len = 0 THEN None
    ELSE LET x == Byte(s, 0) IN
        IF x < 128 THEN LET result == SubTo(s, 1) IN Some(s2c1(result), result)
        ELSE IF x < 224 THEN LET result == SubTo(s, 2) IN Some(s2c2(result), result)
        ELSE IF x < 240 THEN LET result == SubTo(s, 3) IN Some(s2c3(result), result)
        ELSE LET result == SubTo(s, 4) IN Some(s2c4(result), result)

\* StringIter::peek_back
peek_back(s) ==
    IF s.len = 0 THEN None
    ELSE LET index == s.len - 1 IN
        IF Byte(s, index) < 128 THEN
            LET result == SubFrom(s, index) IN Some(s2c1(result), result)
        ELSE IF AndHigh(Byte(s, index - 1), 192) = 192 THEN
            LET result == SubFrom(s, index - 1) IN Some(s2c2(result), result)
        ELSE IF AndHigh(Byte(s, index - 2), 224) = 224 THEN
            LET result == SubFrom(s, index - 2) IN Some(s2c3(result), result)
        ELSE
            LET result == SubFrom(s, index - 3) IN Some(s2c4(result), result)

\* the loop of StringIter::peekn: n iterations left, index bytes passed
RECURSIVE peekn_loop(_, _, _)
peekn_loop(s, n, index) ==
    IF n = 0 THEN Ok(SubTo(s, index))
    ELSE IF index >= s.len THEN Err(SubTo(s, index))
    ELSE LET x == Byte(s, index) IN
        IF x < 128 THEN peekn_loop(s, n - 1, index + 1)
        ELSE IF x < 224 THEN peekn_loop(s, n - 1, index + 2)
        ELSE IF x < 240 THEN peekn_loop(s, n - 1, index + 3)
        ELSE peekn_loop(s, n - 1, index + 4)

\* StringIter::peekn
peekn(s, n) == peekn_loop(s, n, 0)

\* the loop of StringIter::peekn_back
RECURSIVE peekn_back_loop(_, _, _)
peekn_back_loop(s, n, index) ==
    IF n = 0 THEN Ok(SubFrom(s, index))
    ELSE IF index = 0 THEN Err(SubFrom(s, index))
    ELSE IF Byte(s, index - 1) < 128 THEN peekn_back_loop(s, n - 1, index - 1)
    ELSE IF AndHigh(Byte(s, index - 2), 192) = 192 THEN
        peekn_back_loop(s, n - 1, index - 2)
    ELSE IF AndHigh(Byte(s, index - 3), 224) = 224 THEN
        peekn_back_loop(s, n - 1, index - 3)
    ELSE peekn_back_loop(s, n - 1, index - 4)

\* peekn_back reporting a shortfall as Ok
peekn_back_always_ok(s, n) == Ok(peekn_back_loop(s, n, s.len).s)

\* StringIter::peekn_back
peekn_back(s, n) == peekn_back_loop(s, n, s.len)

(***************************************************************************)
(* iterators.rs: LookAhead, a StringIter with a look-ahead length.         *)
(***************************************************************************)
\* StringIter::look_ahead
look_ahead(s, n) == [iter |-> s, look_ahead |-> n]

\* the (c, _) of next() paired with the view s
look_ahead_item(it, r, s) ==
    [res |-> IF r.res.tag = "Some" THEN Some(r.res.c, s) ELSE None,
     it |-> [it EXCEPT !.iter = r.str]]

\* LookAhead::next peeking after the char is taken
look_ahead_next_late(it) ==
    look_ahead_item(it, next_char(it.iter),
                    peekn(next_char(it.iter).str, it.look_ahead).s)

\* LookAhead::next: [res, it]
look_ahead_next(it) ==
    look_ahead_item(it, next_char(it.iter), peekn(it.iter, it.look_ahead).s)

\* LookAhead::next_back: the view comes from peekn_back, the char from next()
look_ahead_next_back(it) ==
    look_ahead_item(it, next_char(it.iter), peekn_back(it.iter, it.look_ahead).s)

(***************************************************************************)
(* pattern.rs, interval.rs: patterns.  A pattern value is a record         *)
(*   kind      which impl of Pattern it is                                 *)
(*   sep       what sep() returns                                          *)
(*   la        what len() returns, the look-ahead length                   *)
(*   ch        the char a char pattern or a closure compares with          *)
(*   n         the counter: the isize itself, Interval.cursor, or the      *)
(*             number of calls a closure has seen                          *)
(*   interval  Interval.interval, the cumulative lengths                   *)
(*   lit       the chars of a &str pattern                                 *)
(*   errAt     the call at which a fallible closure returns Err (0: never) *)
(*   adv       the cursor Interval::new was given (kept for reference, no  *)
(*             operation reads it)                                         *)
(***************************************************************************)
Seps == {"Retain", "Yield", "Split", "Conjoin"}

\* is_yielded answering true for Conjoin alone
is_yielded_conjoin(sep) == sep = "Conjoin"

\* Sep::is_yielded, Sep::is_retained (slice.rs)
is_yielded(sep) == sep \in {"Yield", "Conjoin"}
\* Sep::is_retained answering false for every disposition
is_retained_never(sep) == sep \in {}
is_retained(sep) == sep \in {"Retain", "Conjoin"}

NoPat ==
    [kind |-> "none", sep |-> "Retain", la |-> 1, ch |-> 0, n |-> 0,
     interval |-> <<>>, lit |-> <<>>, errAt |-> 0, adv |-> 0]

\* impl Pattern for char
CharPat(c) == [NoPat EXCEPT !.kind = "char", !.ch = c]

\* impl Pattern for isize
IsizePat(n) == [NoPat EXCEPT !.kind = "isize", !.n = n]

\* impl Pattern for &str: len() is the number of chars of the literal
StrPat(cs) == [NoPat EXCEPT !.kind = "str", !.lit = cs, !.la = Len(cs)]

\* a closure |c, s| -> Result<bool, E> given a look-ahead length by
\* expecting(la) (la = 1: the plain closure |c| ...): it answers c == ch and
\* fails, with the call number as its error, at call errAt
FnPat(c, errAt, la) ==
    [NoPat EXCEPT !.kind = "fn", !.ch = c, !.errAt = errAt, !.la = la]

\* the cumulative sums Interval::new stores
RECURSIVE CumSum(_, _)
CumSum(lengths, sum) ==
    IF lengths = <<>> THEN <<>>
    ELSE <<sum + Head(lengths)>> \o CumSum(Tail(lengths), sum + Head(lengths))

\* Interval::new
IntervalNew(cursor, lengths) ==
    LET interval == CumSum(lengths, 0)
        period == interval[Len(interval)]
    IN  [NoPat EXCEPT !.kind = "interval", !.sep = "Yield",
                      !.interval = interval, !.adv = cursor,
                      !.n = IF cursor > 0 THEN cursor % period ELSE cursor]

\* SetSep::sep_with
sep_with(p, sep) == [p EXCEPT !.sep = sep]

OkBool(b) == [tag |-> "Ok", val |-> b]
ErrVal(e) == [tag |-> "Err", e |-> e]

\* str::starts_with on the bytes of s
starts_with(s, bytes) ==
    /\ Len(bytes) <= s.len
    /\ SubSeq(Bytes(s), 1, Len(bytes)) = bytes

\* Interval::matches answering true at the cumulative lengths alone
interval_matches_nozero(p) ==
    LET cursor == p.n + 1 IN
    IF cursor < 0 THEN [ret |-> OkBool(FALSE), p |-> [p EXCEPT !.n = cursor]]
    ELSE LET c2 == cursor % p.interval[Len(p.interval)] IN
        [ret |-> OkBool(\E i \in 1..Len(p.interval) : p.interval[i] = c2),
         p |-> [p EXCEPT !.n = c2]]

\* Interval::matches without its test for a negative cursor
interval_matches_unsigned(p) ==
    LET c2 == (p.n + 1) % p.interval[Len(p.interval)] IN
    [ret |-> OkBool(c2 = 0 \/ \E i \in 1..Len(p.interval) : p.interval[i] = c2),
     p |-> [p EXCEPT !.n = IF p.n + 1 < 0 THEN p.n + 1 ELSE c2]]

\* Interval::matches
interval_matches(p) ==
    LET cursor == p.n + 1 IN
    IF cursor < 0 THEN [ret |-> OkBool(FALSE), p |-> [p EXCEPT !.n = cursor]]
    ELSE LET c2 == cursor % p.interval[Len(p.interval)] IN
        [ret |-> OkBool(c2 = 0 \/ \E i \in 1..Len(p.interval) : p.interval[i] = c2),
         p |-> [p EXCEPT !.n = c2]]

\* Pattern::matches with an isize that answers true as it reaches 0
matches_isize_zero(p, c, s) ==
    CASE p.kind = "char" -> [ret |-> OkBool(c = p.ch), p |-> p]
      [] p.kind = "isize" ->
            [ret |-> OkBool(p.n - 1 = 0), p |-> [p EXCEPT !.n = p.n - 1]]
      [] p.kind = "str" -> [ret |-> OkBool(starts_with(s, Utf8(p.lit))), p |-> p]
      [] p.kind = "interval" -> interval_matches(p)
      [] p.kind = "fn" ->
            [ret |-> IF p.n + 1 = p.errAt THEN ErrVal(p.n + 1) ELSE OkBool(c = p.ch),
             p |-> [p EXCEPT !.n = p.n + 1]]

\* Pattern::matches of each impl: [ret, p] the answer and the pattern after
matches(p, c, s) ==
    CASE p.kind = "char" -> [ret |-> OkBool(c = p.ch), p |-> p]
      [] p.kind = "isize" ->
            [ret |-> OkBool(p.n - 1 = -1), p |-> [p EXCEPT !.n = p.n - 1]]
      [] p.kind = "str" -> [ret |-> OkBool(starts_with(s, Utf8(p.lit))), p |-> p]
      [] p.kind = "interval" -> interval_matches(p)
      [] p.kind = "fn" ->
            [ret |-> IF p.n + 1 = p.errAt THEN ErrVal(p.n + 1) ELSE OkBool(c = p.ch),
             p |-> [p EXCEPT !.n = p.n + 1]]

(***************************************************************************)
(* split.rs: the guards SplitIter wraps its pattern in.  A guarded pattern *)
(* is [guard, flag, pat]; guard "none" is the pattern itself.              *)
(***************************************************************************)
Plain(p) == [guard |-> "none", flag |-> TRUE, pat |-> p]

\* SplitGuardFirst::new with the flag already set: nothing is discarded
SplitGuardFirst_set(p) == [guard |-> "first", flag |-> TRUE, pat |-> p]

\* SplitGuardFirst::new
SplitGuardFirst(p) == [guard |-> "first", flag |-> ~is_retained(p.sep), pat |-> p]

\* SplitGuard::new with the flag already set: nothing is skipped
SplitGuard_set(p) == [guard |-> "skip", flag |-> TRUE, pat |-> p]

\* SplitGuard::new
SplitGuard(p) == [guard |-> "skip", flag |-> ~is_retained(p.sep), pat |-> p]

Guarded(ret, g, called) == [ret |-> ret, g |-> g, called |-> called]

\* the guard g around the answer m of its pattern
guard_pass(g, m) == Guarded(m.ret, [g EXCEPT !.pat = m.p], TRUE)

\* Pattern::matches of SplitGuardFirst, of SplitGuard and of the pattern itself
guard_matches(g, c, s) ==
    IF g.guard = "first" /\ g.flag = FALSE THEN
        \* discard the first result
        Guarded(OkBool(FALSE),
                [g EXCEPT !.flag = TRUE, !.pat = matches(g.pat, c, s).p], TRUE)
    ELSE IF g.guard = "skip" /\ g.flag = FALSE THEN
        \* skip the first result
        Guarded(OkBool(FALSE), [g EXCEPT !.flag = TRUE], FALSE)
    ELSE guard_pass(g, matches(g.pat, c, s))

(***************************************************************************)
(* slice.rs: the slicing engine.                                           *)
(***************************************************************************)
\* one step of the iterator a scan runs over: self.clone(), .rev(),
\* .look_ahead(n) or .look_ahead(n).rev()
IterNext(dir, it) ==
    CASE dir = "next" ->
            LET r == next_char(it) IN [res |-> r.res, it |-> r.str]
      [] dir = "rev" ->
            LET r == next_char_back(it) IN [res |-> r.res, it |-> r.str]
      [] dir = "la_next" -> look_ahead_next(it)
      [] dir = "la_rev" -> look_ahead_next_back(it)

Call(c, s) == [c |-> c, s |-> s]

ScanResult(tag, c, s, e, g, calls) ==
    [tag |-> tag, c |-> c, s |-> s, e |-> e, g |-> g, calls |-> calls]

\* for (c, s) in <iterator> { if pat.matches(c, s)? { ...; break } }
\* calls lists the arguments of the calls that reached the caller's pattern
RECURSIVE scan(_, _, _, _)

\* the body of the loop on item r, m being what pat.matches(c, s) answered
scan_body(dir, r, m, calls) ==
    IF m.ret.tag = "Err" THEN ScanResult("err", r.res.c, r.res.s, m.ret.e, m.g, calls)
    ELSE IF m.ret.val THEN ScanResult("found", r.res.c, r.res.s, 0, m.g, calls)
    ELSE scan(dir, r.it, m.g, calls)

\* the loop on what the iterator returned
scan_item(dir, r, g, calls) ==
    IF r.res.tag = "None" THEN ScanResult("none", 0, View(0, 0), 0, g, calls)
    ELSE scan_body(dir, r, guard_matches(g, r.res.c, r.res.s),
                   IF g.guard = "skip" /\ g.flag = FALSE THEN calls
                   ELSE Append(calls, Call(r.res.c, r.res.s)))

scan(dir, it, g, calls) == scan_item(dir, IterNext(dir, it), g, calls)

OkNone == [tag |-> "OkNone"]
OkSome(s) == [tag |-> "OkSome", s |-> s]
ErrOf(e) == [tag |-> "Err", e |-> e]

SliceResult(res, s, g, calls, ub) ==
    [res |-> res, str |-> s, g |-> g, calls |-> calls, ub |-> ub]

\* whether s.get_unchecked may cut s at byte i: in bounds, on a char boundary
is_char_boundary(s, i) ==
    /\ i >= 0
    /\ i <= s.len
    /\ i < s.len => AndHigh(Byte(s, i), 192) # 128

\* index and char_len as a scan leaves them: f what the scan found, one
\* whether pat.len() is 1, index0 and char_len0 their values before the scan
scan_index(s, f, index0) == IF f.tag = "found" THEN f.s.ptr - s.ptr ELSE index0

scan_char_len(f, one, char_len0) ==
    IF f.tag # "found" THEN char_len0
    ELSE IF one THEN f.s.len ELSE len_utf8(f.c)

\* slice_front with the yielded and the retained side exchanged
slice_front_swapped(s, f, sep, index, char_len) ==
    SliceResult(
        OkSome(IF is_retained(sep) THEN SubTo(s, index + char_len)
               ELSE SubTo(s, index)),
        IF is_yielded(sep) THEN SubFrom(s, index)
        ELSE SubFrom(s, index + char_len),
        f.g, f.calls, FALSE)

\* slice_front returning the matched char whatever the disposition
slice_front_yielding(s, f, sep, index, char_len) ==
    SliceResult(
        OkSome(SubTo(s, index + char_len)),
        IF is_retained(sep) THEN SubFrom(s, index)
        ELSE SubFrom(s, index + char_len),
        f.g, f.calls, FALSE)

\* the unsafe block of try_next_slice
slice_front(s, f, sep, index, char_len) ==
    SliceResult(
        OkSome(IF is_yielded(sep) THEN SubTo(s, index + char_len)
               ELSE SubTo(s, index)),
        IF is_retained(sep) THEN SubFrom(s, index)
        ELSE SubFrom(s, index + char_len),
        f.g, f.calls, FALSE)

\* try_next_slice after its scan f
try_next_slice_found(s, f, one) ==
    IF f.tag = "err" THEN SliceResult(ErrOf(f.e), s, f.g, f.calls, FALSE)
    ELSE slice_front(s, f, f.g.pat.sep,
                     scan_index(s, f, s.len), scan_char_len(f, one, 0))

\* try_next_slice without its test for the empty cursor
try_next_slice_unchecked(s, g) ==
    IF g.pat.la = 1 THEN
        try_next_slice_found(s, scan("next", s, g, <<>>), TRUE)
    ELSE
        try_next_slice_found(
            s, scan("la_next", look_ahead(s, g.pat.la), g, <<>>), FALSE)

\* StringIter::try_next_slice on cursor s with pattern g
try_next_slice(s, g) ==
    IF s.len = 0 THEN SliceResult(OkNone, s, g, <<>>, FALSE)
    ELSE IF g.pat.la = 1 THEN
        try_next_slice_found(s, scan("next", s, g, <<>>), TRUE)
    ELSE
        try_next_slice_found(
            s, scan("la_next", look_ahead(s, g.pat.la), g, <<>>), FALSE)

\* slice_back cutting where the forward direction cuts
slice_back_forward(s, f, sep, index, char_len) ==
    SliceResult(
        OkSome(IF is_yielded(sep) THEN SubFrom(s, index + char_len)
               ELSE SubFrom(s, index)),
        IF is_retained(sep) THEN SubTo(s, index)
        ELSE SubTo(s, index + char_len),
        f.g, f.calls, FALSE)

\* the unsafe block of try_next_slice_back; get_unchecked is undefined off a
\* char boundary or out of bounds
slice_back(s, f, sep, index, char_len) ==
    SliceResult(
        OkSome(IF is_yielded(sep) THEN SubFrom(s, index)
               ELSE SubFrom(s, index + char_len)),
        IF is_retained(sep) THEN SubTo(s, index + char_len)
        ELSE SubTo(s, index),
        f.g, f.calls,
        \/ (is_yielded(sep) \/ ~is_retained(sep)) /\ ~is_char_boundary(s, index)
        \/ (~is_yielded(sep) \/ is_retained(sep))
           /\ ~is_char_boundary(s, index + char_len))

\* try_next_slice_back_second taking a failed test for a test that said no
try_next_slice_back_second_lenient(s, f2, index1, char_len1) ==
    slice_back(s, f2, f2.g.pat.sep,
               scan_index(s, f2, index1), scan_char_len(f2, TRUE, char_len1))

\* try_next_slice_back after its second scan f2, over self.clone().rev()
try_next_slice_back_second(s, f2, index1, char_len1) ==
    IF f2.tag = "err" THEN SliceResult(ErrOf(f2.e), s, f2.g, f2.calls, FALSE)
    ELSE slice_back(s, f2, f2.g.pat.sep,
                    scan_index(s, f2, index1), scan_char_len(f2, TRUE, char_len1))

\* try_next_slice_back after its first scan f1, the one that depends on
\* pat.len()
try_next_slice_back_first(s, f1, one) ==
    IF f1.tag = "err" THEN SliceResult(ErrOf(f1.e), s, f1.g, f1.calls, FALSE)
    ELSE try_next_slice_back_second(
             s, scan("rev", s, f1.g, f1.calls),
             scan_index(s, f1, s.len), scan_char_len(f1, one, 0))

\* StringIter::try_next_slice_back on cursor s with pattern g
try_next_slice_back(s, g) ==
    IF s.len = 0 THEN SliceResult(OkNone, s, g, <<>>, FALSE)
    ELSE IF g.pat.la = 1 THEN
        try_next_slice_back_first(s, scan("rev", s, g, <<>>), TRUE)
    ELSE
        try_next_slice_back_first(
            s, scan("la_rev", look_ahead(s, g.pat.la), g, <<>>), FALSE)

(***************************************************************************)
(* The state machine.                                                      *)
(***************************************************************************)
Last(op, arg, pre, res, calls) ==
    [op |-> op, arg |-> arg, pre |-> pre, res |-> res, calls |-> calls]

\* StringIter::new over the text of the chars cs
Fresh(cs) ==
    /\ cps = cs
    /\ text = Utf8(cps)
    /\ str = View(0, Len(text))
    /\ fronts = <<>>
    /\ backs = <<>>
    /\ pat = NoPat
    /\ count = 0
    /\ mode = "iter"
    /\ last = Last("new", 0, View(0, 0), None, <<>>)
    /\ lookahead = 0
    /\ tests = <<>>

\* the same with no MergeIter
New(cs) ==
    /\ Fresh(cs)
    /\ parent = View(0, 0)
    /\ iter = [items |-> <<>>, pos |-> 0]
    /\ predicate = [kind |-> "none", n |-> 0]

Init == \E cs \in CharSeqs(Alphabet) : New(cs)

SliceInit == \E cs \in CharSeqs(SliceAlphabet) : New(cs)

\* Iterator::next / StringIter::next_char
NextChar ==
    /\ mode = "iter"
    /\ LET r == next_char(str) IN
        /\ str' = r.str
        /\ fronts' = IF r.res.tag = "Some" THEN Append(fronts, r.res) ELSE fronts
        /\ last' = Last("next_char", 0, str, r.res, <<>>)
    /\ UNCHANGED <<lookahead, tests, parent, iter, predicate, cps, text, backs, pat, count, mode>>

\* DoubleEndedIterator::next_back / StringIter::next_char_back
NextCharBack ==
    /\ mode = "iter"
    /\ LET r == next_char_back(str) IN
        /\ str' = r.str
        /\ backs' = IF r.res.tag = "Some" THEN Append(backs, r.res) ELSE backs
        /\ last' = Last("next_char_back", 0, str, r.res, <<>>)
    /\ UNCHANGED <<lookahead, tests, parent, iter, predicate, cps, text, fronts, pat, count, mode>>

\* StringIter::peek
Peek ==
    /\ mode = "iter"
    /\ last' = Last("peek", 0, str, peek(str), <<>>)
    /\ UNCHANGED <<lookahead, tests, parent, iter, predicate, cps, text, str, fronts, backs, pat, count, mode>>

\* StringIter::peek_back
PeekBack ==
    /\ mode = "iter"
    /\ last' = Last("peek_back", 0, str, peek_back(str), <<>>)
    /\ UNCHANGED <<lookahead, tests, parent, iter, predicate, cps, text, str, fronts, backs, pat, count, mode>>

\* StringIter::peekn
Peekn(n) ==
    /\ mode = "iter"
    /\ last' = Last("peekn", n, str, peekn(str, n), <<>>)
    /\ UNCHANGED <<lookahead, tests, parent, iter, predicate, cps, text, str, fronts, backs, pat, count, mode>>

\* StringIter::peekn_back
PeeknBack(n) ==
    /\ mode = "iter"
    /\ last' = Last("peekn_back", n, str, peekn_back(str, n), <<>>)
    /\ UNCHANGED <<lookahead, tests, parent, iter, predicate, cps, text, str, fronts, backs, pat, count, mode>>

Next ==
    \/ NextChar
    \/ NextCharBack
    \/ Peek
    \/ PeekBack
    \/ \E n \in 0..MaxPeek : Peekn(n)
    \/ \E n \in 0..MaxPeek : PeeknBack(n)

\* the decoder: a cursor advanced and peeked at from both ends
Spec == Init /\ [][Next]_vars

(***************************************************************************)
(* Slicing: try_next_slice and try_next_slice_back called on the cursor    *)
(* with a pattern passed by value.                                         *)
(***************************************************************************)
\* the patterns the slice calls are given
SlicePatterns ==
    {sep_with(CharPat(233), sep) : sep \in Seps}
    \cup {sep_with(StrPat(<<97, 233>>), sep) : sep \in Seps}
    \cup {FnPat(233, e, la) : e \in 1..MaxErrAt, la \in {1, 2}}
    \cup {IsizePat(n) : n \in {0, 2}}
    \cup {IntervalNew(0, <<2, 1>>)}

\* every &str inside the text: what an undefined get_unchecked may yield
AnyView == {View(p, n) : p \in 0..Len(text), n \in 0..Len(text)}

\* the cursor and the record of a slice call that returned r
Sliced(op, p, r) ==
    /\ str' = r.str
    /\ last' = Last(op, p, str, r.res, r.calls)

\* the same when the call's behaviour was undefined: any view may come out
SlicedUb(op, p, r) ==
    IF r.ub THEN
        /\ mode' = "ub"
        /\ str' \in {v \in AnyView : v.ptr + v.len <= Len(text)}
        /\ last' = Last(op, p, str, [tag |-> "UB"], r.calls)
    ELSE
        /\ mode' = mode
        /\ Sliced(op, p, r)

\* StringIter::try_next_slice
TryNextSlice(p) ==
    /\ mode = "iter"
    /\ Sliced("try_next_slice", p, try_next_slice(str, Plain(p)))
    /\ UNCHANGED <<lookahead, tests, parent, iter, predicate, cps, text, fronts, backs, pat, count, mode>>

\* StringIter::try_next_slice_back
TryNextSliceBack(p) ==
    /\ mode = "iter"
    /\ SlicedUb("try_next_slice_back", p, try_next_slice_back(str, Plain(p)))
    /\ UNCHANGED <<lookahead, tests, parent, iter, predicate, cps, text, fronts, backs, pat, count>>

NextSlice ==
    \/ \E p \in SlicePatterns : TryNextSlice(p)
    \/ \E p \in SlicePatterns : TryNextSliceBack(p)

\* the slicing engine: slices taken off the cursor from both ends
SliceSpec == SliceInit /\ [][NextSlice]_vars

(***************************************************************************)
(* Splitting: into_substrs or into_splits turns the cursor into a          *)
(* SplitIter, which is then iterated from both ends.  fronts and backs     *)
(* list what next() and next_back() returned.                              *)
(***************************************************************************)
\* the result of Option<&str>: Some(s)
SomeStr(s) == [tag |-> "Some", s |-> s]

\* Result::unwrap
unwrap(r) ==
    CASE r.tag = "OkSome" -> SomeStr(r.s)
      [] r.tag = "OkNone" -> None
      [] r.tag = "Err" -> [tag |-> "Panic"]

\* StringIter::next_slice
next_slice(s, g) == [try_next_slice(s, g) EXCEPT !.res = unwrap(@)]

\* StringIter::next_slice_back
next_slice_back(s, g) == [try_next_slice_back(s, g) EXCEPT !.res = unwrap(@)]

\* the patterns given to into_substrs and into_splits: their Err is Never
SplitPatterns ==
    {sep_with(CharPat(233), sep) : sep \in Seps}
    \cup {sep_with(StrPat(<<97, 233>>), sep) : sep \in Seps}
    \cup {IsizePat(n) : n \in {0, 2}}
    \cup {IntervalNew(0, <<2, 1>>)}

\* into_substrs without its test of the disposition
IntoSubstrs_unchecked(p) ==
    /\ mode = "iter"
    /\ mode' = "split"
    /\ pat' = p
    /\ count' = 0
    /\ last' = Last("into_substrs", p, str, None, <<>>)
    /\ UNCHANGED <<lookahead, tests, parent, iter, predicate, cps, text, str, fronts, backs>>

\* StringIter::into_substrs
IntoSubstrs(p) ==
    /\ mode = "iter"
    /\ IF p.sep = "Conjoin" THEN
           /\ mode' = "panic"
           /\ UNCHANGED <<lookahead, tests, pat, count>>
       ELSE
           /\ mode' = "split"
           /\ pat' = p
           /\ count' = 0
    /\ last' = Last("into_substrs", p, str, None, <<>>)
    /\ UNCHANGED <<lookahead, tests, parent, iter, predicate, cps, text, str, fronts, backs>>

\* StringIter::into_splits
IntoSplits(p) ==
    /\ mode = "iter"
    /\ mode' = "split"
    /\ pat' = sep_with(p, "Split")
    /\ count' = 0
    /\ last' = Last("into_splits", p, str, None, <<>>)
    /\ UNCHANGED <<lookahead, tests, parent, iter, predicate, cps, text, str, fronts, backs>>

\* every next() wrapping the pattern in SplitGuardFirst
split_guard_first == SplitGuardFirst(pat)

\* the pattern SplitIter hands to the slicing engine
split_guard == IF count = 0 THEN SplitGuardFirst(pat) ELSE SplitGuard(pat)

\* SplitIter::next, called at most max times
SplitNextUpTo(max) ==
    /\ mode = "split"
    /\ count < max
    /\ count' = count + 1
    /\ Sliced("next", pat, next_slice(str, split_guard))
    /\ pat' = next_slice(str, split_guard).g.pat
    /\ fronts' = Append(fronts, next_slice(str, split_guard).res)
    /\ tests' = tests \o next_slice(str, split_guard).calls
    /\ UNCHANGED <<lookahead, parent, iter, predicate, cps, text, backs, mode>>

SplitNext == SplitNextUpTo(MaxCount)

\* SplitIter::next_back
SplitNextBack ==
    /\ mode = "split"
    /\ count < MaxCount
    /\ count' = count + 1
    /\ SlicedUb("next_back", pat, next_slice_back(str, split_guard))
    /\ pat' = next_slice_back(str, split_guard).g.pat
    /\ backs' = Append(backs, last'.res)
    /\ tests' = tests \o last'.calls
    /\ UNCHANGED <<lookahead, parent, iter, predicate, cps, text, fronts>>

NextSplit ==
    \/ \E p \in SplitPatterns : IntoSubstrs(p)
    \/ \E p \in SplitPatterns : IntoSplits(p)
    \/ SplitNext
    \/ SplitNextBack

\* a split sequence: made from a fresh cursor, iterated from both ends
SplitSpec == SliceInit /\ [][NextSplit]_vars

(***************************************************************************)
(* Splitting by an Interval: longer texts, whose chars the pattern does    *)
(* not look at, split from the front.                                      *)
(***************************************************************************)
\* char i of the texts: widths 1, 2, 4 in turn
IntervalChar(i) == CASE i % 3 = 1 -> 97 [] i % 3 = 2 -> 233 [] OTHER -> 128512

IntervalInit ==
    \E n \in 0..MaxIntervalChars : New([i \in 1..n |-> IntervalChar(i)])

\* the lengths given to interval!
IntervalLengths == {<<2>>, <<2, 1>>, <<1, 3>>}

\* into_substrs(interval!(lengths => adv))
IntervalSubstrs(adv, lengths) == IntoSubstrs(IntervalNew(adv, lengths))

IntervalNext == SplitNextUpTo(MaxSplits)

NextInterval ==
    \/ \E adv \in (-MaxAdv)..MaxAdv, lengths \in IntervalLengths :
           IntervalSubstrs(adv, lengths)
    \/ IntervalNext

IntervalSpec == IntervalInit /\ [][NextInterval]_vars

(***************************************************************************)
(* iter_fns.rs: trimming the cursor by a pattern that cannot fail.         *)
(***************************************************************************)
\* a call of the pattern: the char, its view and the answer
TrimCall(c, s, ret) == [c |-> c, s |-> s, ret |-> ret]

\* the cursor, the pattern and the calls after a trim
TrimResult(s, f, calls) == [str |-> s, pat |-> f, calls |-> calls]

\* the length trim_start_by reads off the byte x at index
trim_start_len(x) ==
    IF x < 128 THEN 1 ELSE IF x < 224 THEN 2 ELSE IF x < 240 THEN 3 ELSE 4

\* the char trim_start_by decodes from result, a view of len bytes
trim_start_char(result, len) ==
    CASE len = 1 -> s2c1(result)
      [] len = 2 -> s2c2(result)
      [] len = 3 -> s2c3(result)
      [] len = 4 -> s2c4(result)

RECURSIVE trim_start_loop(_, _, _, _)

\* the loop cutting the char that failed the test as well
trim_start_step_greedy(s, index, len, c, result, m, calls) ==
    IF m.ret.val THEN
        trim_start_loop(s, m.p, index + len, Append(calls, TrimCall(c, result, TRUE)))
    ELSE TrimResult(SubFrom(s, index + len), m.p,
                    Append(calls, TrimCall(c, result, FALSE)))

\* the loop after f.matches(c, s).unwrap() came to m: index += len, or break
\* and cut at index
trim_start_step(s, index, len, c, result, m, calls) ==
    IF m.ret.val THEN
        trim_start_loop(s, m.p, index + len, Append(calls, TrimCall(c, result, TRUE)))
    ELSE TrimResult(SubFrom(s, index), m.p,
                    Append(calls, TrimCall(c, result, FALSE)))

\* the loop at a byte of a char of len bytes
trim_start_at(s, f, index, len, calls) ==
    trim_start_step(s, index, len,
                    trim_start_char(Sub(s, index, index + len), len),
                    Sub(s, index, index + len),
                    matches(f, trim_start_char(Sub(s, index, index + len), len),
                            Sub(s, index, index + len)),
                    calls)

\* while let Some(x) = bytes.get(index)
trim_start_loop(s, f, index, calls) ==
    IF index >= s.len THEN TrimResult(SubFrom(s, index), f, calls)
    ELSE trim_start_at(s, f, index, trim_start_len(Byte(s, index)), calls)

\* StringIter::trim_start_by
trim_start_by(s, f) == trim_start_loop(s, f, 0, <<>>)

\* the cursor, the pattern and the calls after trim_end_by, and what went
\* wrong: "overflow" a usize subtraction below 0, "ub" a get_unchecked off
\* the char boundaries
TrimEndResult(s, f, calls, fault) ==
    [str |-> s, pat |-> f, calls |-> calls, fault |-> fault]

RECURSIVE trim_end_loop(_, _, _, _)

\* the branch after the test of s[i..index] came to m: break and cut at
\* index, or index = i and continue
trim_end_step(s, f, i, index, c, m, calls) ==
    IF ~m.ret.val THEN
        TrimEndResult(SubTo(s, index), m.p,
                      Append(calls, TrimCall(c, Sub(s, i, index), FALSE)), "none")
    ELSE trim_end_loop(s, m.p, i, Append(calls, TrimCall(c, Sub(s, i, index), TRUE)))

\* a branch of the loop body: s = self.str.get_unchecked(i..index) read as a
\* char of n bytes and tested
trim_end_test(s, f, i, index, n, calls) ==
    IF ~(is_char_boundary(s, i) /\ is_char_boundary(s, index)) THEN
        TrimEndResult(s, f, calls, "ub")
    ELSE trim_end_step(s, f, i, index, trim_start_char(Sub(s, i, index), n),
                       matches(f, trim_start_char(Sub(s, i, index), n), Sub(s, i, index)),
                       calls)

\* the loop body from its third i -= 1 on
trim_end_at3(s, f, index, calls) ==
    IF index - 3 < 0 THEN TrimEndResult(s, f, calls, "overflow")
    ELSE IF AndHigh(Byte(s, index - 3), 224) = 224 THEN
        trim_end_test(s, f, index - 3, index, 3, calls)
    ELSE IF index - 4 < 0 THEN TrimEndResult(s, f, calls, "overflow")
    ELSE trim_end_test(s, f, index - 4, index, 4, calls)

\* the loop body: x = bytes[index]
trim_end_at(s, f, index, x, calls) ==
    IF index - 1 < 0 THEN TrimEndResult(s, f, calls, "overflow")
    ELSE IF x < 128 THEN trim_end_test(s, f, index - 1, index, 1, calls)
    ELSE IF index - 2 < 0 THEN TrimEndResult(s, f, calls, "overflow")
    ELSE IF AndHigh(Byte(s, index - 2), 192) = 192 THEN
        trim_end_test(s, f, index - 2, index, 2, calls)
    ELSE trim_end_at3(s, f, index, calls)

\* while let Some(x) = bytes.get(index)
trim_end_loop(s, f, index, calls) ==
    IF index >= s.len THEN TrimEndResult(SubTo(s, index), f, calls, "none")
    ELSE trim_end_at(s, f, index, Byte(s, index), calls)

\* StringIter::trim_end_by: index starts at self.len() - 1
trim_end_by(s, f) ==
    IF s.len - 1 < 0 THEN TrimEndResult(s, f, <<>>, "overflow")
    ELSE trim_end_loop(s, f, s.len - 1, <<>>)

\* the patterns given to the trims: a char, a &str of two chars, an isize, an
\* Interval entered at 1 and a closure that never fails
TrimPatterns ==
    {CharPat(97), CharPat(233), StrPat(<<97, 233>>), IsizePat(0),
     IntervalNew(1, <<2, 1>>), FnPat(128512, 0, 1)}

\* StringIter::trim_start_by on the cursor
TrimStartBy(p) ==
    /\ mode = "iter"
    /\ str' = trim_start_by(str, p).str
    /\ last' = Last("trim_start_by", p, str, None, trim_start_by(str, p).calls)
    /\ UNCHANGED <<lookahead, tests, parent, iter, predicate, cps, text, fronts, backs, pat, count, mode>>

\* the state after a trim_end_by that came to r: an overflow panics where
\* overflow is checked and is undefined where it is not
TrimmedEnd(p, r) ==
    \/ /\ r.fault = "none"
       /\ mode' = mode
       /\ str' = r.str
       /\ last' = Last("trim_end_by", p, str, None, r.calls)
    \/ /\ r.fault = "overflow"
       /\ mode' = "panic"
       /\ str' = str
       /\ last' = Last("trim_end_by", p, str, [tag |-> "Panic"], r.calls)
    \/ /\ r.fault \in {"overflow", "ub"}
       /\ mode' = "ub"
       /\ str' \in {v \in AnyView : v.ptr + v.len <= Len(text)}
       /\ last' = Last("trim_end_by", p, str, [tag |-> "UB"], r.calls)

\* StringIter::trim_end_by on the cursor
TrimEndBy(p) ==
    /\ mode = "iter"
    /\ TrimmedEnd(p, trim_end_by(str, p))
    /\ UNCHANGED <<lookahead, tests, parent, iter, predicate, cps, text, fronts, backs, pat, count>>

NextTrim ==
    \/ NextChar
    \/ NextCharBack
    \/ \E p \in TrimPatterns : TrimStartBy(p)
    \/ \E p \in TrimPatterns : TrimEndBy(p)

\* trims of a cursor that chars were taken off at both ends
TrimSpec == SliceInit /\ [][NextTrim]_vars

(***************************************************************************)
(* iterators.rs: a StringIter consumed into a LookAhead, and a pattern     *)
(* with a look-ahead length given to try_next_slice.                       *)
(***************************************************************************)
\* StringIter::look_ahead: len must not be 0
IntoLookAhead(len) ==
    /\ mode = "iter"
    /\ mode' = IF len = 0 THEN "panic" ELSE "look_ahead"
    /\ lookahead' = len
    /\ last' = Last("look_ahead", len, str, None, <<>>)
    /\ UNCHANGED <<tests, parent, iter, predicate, cps, text, str, fronts, backs,
                   pat, count>>

\* the cursor and the record of a call on the LookAhead that came to r
LookedAhead(op, r) ==
    /\ str' = r.it.iter
    /\ last' = Last(op, lookahead, str, r.res, <<>>)

\* LookAhead::next
LookAheadNext ==
    /\ mode = "look_ahead"
    /\ LookedAhead("look_ahead_next", look_ahead_next(look_ahead(str, lookahead)))
    /\ fronts' = IF last'.res.tag = "Some" THEN Append(fronts, last'.res) ELSE fronts
    /\ UNCHANGED <<lookahead, tests, parent, iter, predicate, cps, text, backs, pat,
                   count, mode>>

\* LookAhead::next_back
LookAheadNextBack ==
    /\ mode = "look_ahead"
    /\ LookedAhead("look_ahead_next_back",
                   look_ahead_next_back(look_ahead(str, lookahead)))
    /\ backs' = IF last'.res.tag = "Some" THEN Append(backs, last'.res) ELSE backs
    /\ UNCHANGED <<lookahead, tests, parent, iter, predicate, cps, text, fronts, pat,
                   count, mode>>

NextLookAhead ==
    \/ \E len \in 0..MaxPeek : IntoLookAhead(len)
    \/ LookAheadNext
    \/ LookAheadNextBack
    \/ \E p \in SlicePatterns : TryNextSlice(p)

\* look-ahead sequences, and slices by patterns with a look-ahead length
LookAheadSpec == SliceInit /\ [][NextLookAhead]_vars

(***************************************************************************)
(* merge.rs: merging views of a parent.  The views are &strs inside the    *)
(* text; the parent is the text or a part of it, so that a view may lie    *)
(* outside the parent.                                                     *)
(***************************************************************************)
\* merge without the test of end against parent.len()
merge_unbounded(p, first, second) ==
    IF first.ptr + first.len = second.ptr THEN
        IF first.ptr - p.ptr < 0 THEN None
        ELSE SomeStr(Sub(p, first.ptr - p.ptr,
                         (first.ptr - p.ptr) + first.len + second.len))
    ELSE None

\* merge
merge(p, first, second) ==
    IF first.ptr + first.len = second.ptr THEN
        \* checked_sub
        IF first.ptr - p.ptr < 0 THEN None
        ELSE IF (first.ptr - p.ptr) + first.len + second.len > p.len THEN None
        ELSE SomeStr(Sub(p, first.ptr - p.ptr,
                         (first.ptr - p.ptr) + first.len + second.len))
    ELSE None

\* the closure without the ?: after a failure it starts again from y
merge_step_restart(p, x, y) == IF x.tag = "None" THEN SomeStr(y) ELSE merge(p, x.s, y)

\* the closure |x, y| merge(parent, x?, y)
merge_step(p, x, y) == IF x.tag = "None" THEN None ELSE merge(p, x.s, y)

\* Iterator::fold over items i.. with the closure of merge_all
RECURSIVE fold_merge(_, _, _, _)
fold_merge(acc, items, i, p) ==
    IF i > Len(items) THEN acc
    ELSE fold_merge(merge_step(p, acc, items[i]), items, i + 1, p)

\* Merge::merge_all
merge_all(items, p) ==
    IF items = <<>> THEN None
    ELSE fold_merge(SomeStr(items[1]), items, 2, p)

\* the predicates given to merge_by: |_, _| true, |_, _| false, one that
\* looks at its second argument, and one that counts its calls and answers
\* false to the first
Predicates == {[kind |-> k, n |-> 0] : k \in {"true", "false", "short", "second"}}

\* (self.predicate)(a, b): the answer and the predicate after the call
predicate_call(f, a, b) ==
    CASE f.kind = "true" -> [ret |-> TRUE, f |-> f]
      [] f.kind = "false" -> [ret |-> FALSE, f |-> f]
      [] f.kind = "short" -> [ret |-> b.len <= 1, f |-> f]
      [] f.kind = "second" -> [ret |-> f.n >= 1, f |-> [f EXCEPT !.n = 1]]

\* a call of the predicate: its arguments, the running merged view curr and
\* the place of b among the views given
PredCall(a, b, curr, idx) == [a |-> a, b |-> b, curr |-> curr, idx |-> idx]

MergeResult(res, it, f, calls, hang) ==
    [res |-> res, iter |-> it, predicate |-> f, calls |-> calls, hang |-> hang]

\* the while let loop of MergeIter::next
RECURSIVE merge_loop(_, _, _, _, _, _)

\* the loop after the predicate answered a about the peeked view: a rejected
\* view stays peeked, and a predicate that answers as before never lets the
\* loop end
merge_loop_answer(p, it, f, curr, lst, calls, merged, a) ==
    IF a.ret THEN
        merge_loop(p, [it EXCEPT !.pos = it.pos + 1], a.f, merged,
                   it.items[it.pos + 1], calls)
    ELSE IF a.f = f THEN MergeResult(None, it, f, calls, TRUE)
    ELSE merge_loop(p, it, a.f, curr, lst, calls)

\* the loop calling the predicate on (curr, next)
merge_loop_merged_running(p, it, f, curr, lst, calls, m) ==
    IF m.tag = "Some" THEN
        merge_loop_answer(p, it, f, curr, lst,
                          Append(calls, PredCall(curr, it.items[it.pos + 1], curr,
                                                 it.pos + 1)),
                          m.s, predicate_call(f, curr, it.items[it.pos + 1]))
    ELSE MergeResult(SomeStr(curr), it, f, calls, FALSE)

\* the loop after merge(self.parent, curr, next) returned m
merge_loop_merged(p, it, f, curr, lst, calls, m) ==
    IF m.tag = "Some" THEN
        merge_loop_answer(p, it, f, curr, lst,
                          Append(calls, PredCall(lst, it.items[it.pos + 1], curr,
                                                 it.pos + 1)),
                          m.s, predicate_call(f, lst, it.items[it.pos + 1]))
    ELSE MergeResult(SomeStr(curr), it, f, calls, FALSE)

merge_loop(p, it, f, curr, lst, calls) ==
    IF it.pos >= Len(it.items) THEN MergeResult(SomeStr(curr), it, f, calls, FALSE)
    ELSE merge_loop_merged(p, it, f, curr, lst, calls,
                           merge(p, curr, it.items[it.pos + 1]))

\* MergeIter::next
merge_iter_next(p, it, f) ==
    IF it.pos >= Len(it.items) THEN MergeResult(None, it, f, <<>>, FALSE)
    ELSE merge_loop(p, [it EXCEPT !.pos = it.pos + 1], f,
                    it.items[it.pos + 1], it.items[it.pos + 1], <<>>)

\* the byte offsets of the char boundaries of the text
Boundaries == {Len(Utf8(SubSeq(cps, 1, k))) : k \in 0..Len(cps)}

\* every &str inside the text
StrViews ==
    {View(ab[1], ab[2] - ab[1]) :
        ab \in {ab \in Boundaries \X Boundaries : ab[1] <= ab[2]}}

\* the sequences of views an iterator hands to merge_all or merge_by
ViewSeqs == UNION {[1..k -> StrViews] : k \in 0..MaxViews}

\* the parents: the text, the text without its first char and the text
\* without its last char
Parents ==
    {View(0, Len(text))} \cup
    {View(Len(Utf8(SubSeq(cps, 1, k))), Len(text) - Len(Utf8(SubSeq(cps, 1, k)))) :
        k \in {k \in {1} : k <= Len(cps)}} \cup
    {View(0, Len(Utf8(SubSeq(cps, 1, Len(cps) - k)))) :
        k \in {k \in {1} : k <= Len(cps)}}

\* a text, a parent in it and an iterator over views of the text
MergeInit ==
    /\ \E n \in 0..MaxMergeChars : Fresh([i \in 1..n |-> IntervalChar(i)])
    /\ parent \in Parents
    /\ iter \in {[items |-> vs, pos |-> 0] : vs \in ViewSeqs}
    /\ predicate = [kind |-> "none", n |-> 0]

\* merge(parent, first, second) on the first two views
Merge ==
    /\ mode = "iter"
    /\ Len(iter.items) >= 2
    /\ last' = Last("merge", iter.items, str,
                    merge(parent, iter.items[1], iter.items[2]), <<>>)
    /\ UNCHANGED <<lookahead, tests, parent, iter, predicate, cps, text, str, fronts, backs, pat,
                   count, mode>>

\* Merge::merge_all
MergeAll ==
    /\ mode = "iter"
    /\ last' = Last("merge_all", iter.items, str, merge_all(iter.items, parent), <<>>)
    /\ UNCHANGED <<lookahead, tests, parent, iter, predicate, cps, text, str, fronts, backs, pat,
                   count, mode>>

\* Merge::merge_by
MergeBy(f) ==
    /\ mode = "iter"
    /\ mode' = "merge"
    /\ predicate' = f
    /\ last' = Last("merge_by", f, str, None, <<>>)
    /\ UNCHANGED <<lookahead, tests, parent, iter, cps, text, str, fronts, backs, pat, count>>

\* the state after a call of MergeIter::next that came to r; a call whose
\* loop never ends returns nothing
MergedNext(r) ==
    /\ iter' = r.iter
    /\ predicate' = r.predicate
    /\ mode' = IF r.hang THEN "hang" ELSE mode
    /\ fronts' = IF r.hang THEN fronts ELSE Append(fronts, r.res)
    /\ last' = Last("merge_iter_next", predicate, str,
                    IF r.hang THEN [tag |-> "Hang"] ELSE r.res, r.calls)

\* MergeIter::next, called until it has returned None once
MergeIterNext ==
    /\ mode = "merge"
    /\ Len(fronts) <= Len(iter.items)
    /\ \A i \in 1..Len(fronts) : fronts[i] # None
    /\ MergedNext(merge_iter_next(parent, iter, predicate))
    /\ UNCHANGED <<lookahead, tests, parent, cps, text, str, backs, pat, count>>

NextMerge ==
    \/ Merge
    \/ MergeAll
    \/ \E f \in Predicates : MergeBy(f)
    \/ MergeIterNext

MergeSpec == MergeInit /\ [][NextMerge]_vars

(***************************************************************************)
(* Claims about the decoder, checked under Spec.                           *)
(***************************************************************************)
Reverse(q) == [i \in 1..Len(q) |-> q[Len(q) + 1 - i]]

RECURSIVE ConcatViews(_)
ConcatViews(items) ==
    IF items = <<>> THEN <<>>
    ELSE Bytes(Head(items).s) \o ConcatViews(Tail(items))

\* the chars of the cursor, given what has been taken from each end
Remaining == SubSeq(cps, Len(fronts) + 1, Len(cps) - Len(backs))

\* what next() has yielded, then what next_back() has yielded, reversed
Yielded == fronts \o Reverse(backs)

\* C1: once the cursor is exhausted by any run of next() and next_back()
\* calls (all from the front, all from the back, or mixed), the views
\* yielded from the front followed by the reversed views yielded from the
\* back concatenate to the text, there is one item per char of the text,
\* each char is the decoding of its view, and the views lie one after the
\* other from byte 0: so the front-to-back run and the reversed back-to-front
\* run yield the same items.
C1_IterJoin ==
    (mode = "iter" /\ str.len = 0) =>
        /\ ConcatViews(Yielded) = text
        /\ Len(Yielded) = Len(cps)
        /\ \A i \in 1..Len(Yielded) :
              /\ Yielded[i].c = cps[i]
              /\ Bytes(Yielded[i].s) = encode_utf8(Yielded[i].c)
              /\ Yielded[i].s.ptr = (IF i = 1 THEN 0
                                     ELSE Yielded[i - 1].s.ptr + Yielded[i - 1].s.len)

\* a text of mixed widths exhausted from the back alone
C1_Witness ==
    /\ str.len = 0
    /\ Len(cps) >= 2
    /\ Len(backs) = Len(cps)
    /\ \E i, j \in 1..Len(cps) : len_utf8(cps[i]) = 3 /\ len_utf8(cps[j]) = 4

\* C2: next_char() returns what peek() returns on the cursor before it and
\* removes exactly the returned view from the front; next_char_back() returns
\* what peek_back() returns and removes exactly that view from the back;
\* peek() and peek_back() leave the cursor as it was; on an empty cursor all
\* four return None.
C2_PeekNext ==
    /\ last.op = "next_char" =>
          /\ last.res = peek(last.pre)
          /\ last.res.tag = "Some" =>
                /\ last.res.s = SubTo(last.pre, last.res.s.len)
                /\ str = SubFrom(last.pre, last.res.s.len)
                /\ last.res.s.len >= 1
          /\ last.res.tag = "None" => str = last.pre
    /\ last.op = "next_char_back" =>
          /\ last.res = peek_back(last.pre)
          /\ last.res.tag = "Some" =>
                /\ last.res.s = SubFrom(last.pre, last.pre.len - last.res.s.len)
                /\ str = SubTo(last.pre, last.pre.len - last.res.s.len)
                /\ last.res.s.len >= 1
          /\ last.res.tag = "None" => str = last.pre
    /\ last.op \in {"peek", "peek_back"} => str = last.pre
    /\ last.op \in {"peek", "peek_back", "next_char", "next_char_back"} =>
          (last.res = None <=> last.pre.len = 0)

\* next_char_back() has just taken a multi-byte char off a longer cursor
C2_Witness ==
    /\ last.op = "next_char_back"
    /\ last.res.tag = "Some"
    /\ last.res.s.len = 3
    /\ str.len > 0

\* C3: peekn(n) is Ok(the view of the first n chars of the cursor) when the
\* cursor holds at least n chars and Err(the whole cursor) otherwise;
\* peekn_back(n) likewise with the last n chars; neither changes the cursor,
\* and peekn(0) is Ok("") even on an empty cursor.
C3_Peekn ==
    /\ last.op = "peekn" =>
          /\ str = last.pre
          /\ IF last.arg <= Len(Remaining)
              THEN last.res =
                     Ok(SubTo(str, Len(Utf8(SubSeq(Remaining, 1, last.arg)))))
              ELSE last.res = Err(str)
    /\ last.op = "peekn_back" =>
          /\ str = last.pre
          /\ IF last.arg <= Len(Remaining)
              THEN last.res =
                     Ok(SubFrom(str, str.len - Len(Utf8(
                         SubSeq(Remaining, Len(Remaining) - last.arg + 1,
                                Len(Remaining))))))
              ELSE last.res = Err(str)

\* peekn_back(2) on a cursor of three or more chars, the last ones multi-byte
C3_Witness ==
    /\ last.op = "peekn_back"
    /\ last.arg = 2
    /\ Len(Remaining) >= 3
    /\ last.res.tag = "Ok"
    /\ last.res.s.len >= 5

(***************************************************************************)
(* Claims about the slicing engine, checked under SliceSpec.  The chars of *)
(* a cursor are read off cps, not decoded: char i of the text lies at byte *)
(* Off(i).                                                                 *)
(***************************************************************************)
Off(i) == Len(Utf8(SubSeq(cps, 1, i - 1)))

\* the indices in cps of the chars the view v spans
CharIdx(v) == {i \in 1..Len(cps) : v.ptr <= Off(i) /\ Off(i) < v.ptr + v.len}

FirstIdx(v) == CHOOSE i \in CharIdx(v) : \A j \in CharIdx(v) : i <= j
LastIdx(v) == CHOOSE i \in CharIdx(v) : \A j \in CharIdx(v) : j <= i

\* the view of chars i .. i+n-1, cut short at char hi
RefView(i, n, hi) ==
    View(Off(i), Off(IF i + n <= hi + 1 THEN i + n ELSE hi + 1) - Off(i))

\* pattern p tested on chars i, i+1, .. hi in turn, each with the view of the
\* next p.la chars: the index of the first char it answers true on, 0 when it
\* answers false on all of them, -1 when it fails first
RECURSIVE FirstTrue(_, _, _)
FirstTrue(p, i, hi) ==
    IF i > hi THEN 0
    ELSE LET m == matches(p, cps[i], RefView(i, p.la, hi)) IN
        IF m.ret.tag = "Err" THEN -1
        ELSE IF m.ret.val THEN i
        ELSE FirstTrue(m.p, i + 1, hi)

\* the same from char hi down to char lo
RECURSIVE FirstTrueBack(_, _, _, _)
FirstTrueBack(p, lo, i, hi) ==
    IF i < lo THEN 0
    ELSE LET m == matches(p, cps[i], RefView(i, p.la, hi)) IN
        IF m.ret.tag = "Err" THEN -1
        ELSE IF m.ret.val THEN i
        ELSE FirstTrueBack(m.p, lo, i - 1, hi)

\* the cursor before the last call, as [first char, last char] of cps
PreFirst == FirstIdx(last.pre)
PreLast == LastIdx(last.pre)

\* the end of the cursor before the last call, as an empty view
PreEnd == View(last.pre.ptr + last.pre.len, 0)

\* C4: try_next_slice on an empty cursor returns Ok(None) without calling
\* the pattern; on a non-empty cursor it never returns Ok(None); and when the
\* test answers false on every char of a non-empty cursor it returns
\* Some(the whole cursor) and leaves the cursor empty, whatever the
\* disposition.
C4_SliceNoMatch ==
    last.op = "try_next_slice" =>
        /\ last.pre.len = 0 =>
              /\ last.res = OkNone
              /\ last.calls = <<>>
              /\ str = last.pre
        /\ last.pre.len > 0 =>
              /\ last.res # OkNone
              /\ FirstTrue(last.arg, PreFirst, PreLast) = 0 =>
                    /\ last.res = OkSome(last.pre)
                    /\ str = PreEnd

\* a look-ahead pattern that conjoins finds nothing in a cursor of 3 chars
C4_Witness ==
    /\ last.op = "try_next_slice"
    /\ last.arg.sep = "Conjoin"
    /\ last.arg.la = 2
    /\ last.pre.len > 0
    /\ Cardinality(CharIdx(last.pre)) >= 3
    /\ FirstTrue(last.arg, PreFirst, PreLast) = 0
    /\ Len(last.calls) = 3
    /\ str.len = 0

\* the result and the cursor the disposition table gives for a match on the
\* char at bytes [b, e) of the cursor pre, sliced from the front
FrontTable(sep, pre, b, e) ==
    CASE sep = "Retain" -> [res |-> SubTo(pre, b), str |-> SubFrom(pre, b)]
      [] sep = "Yield" -> [res |-> SubTo(pre, e), str |-> SubFrom(pre, e)]
      [] sep = "Split" -> [res |-> SubTo(pre, b), str |-> SubFrom(pre, e)]
      [] sep = "Conjoin" -> [res |-> SubTo(pre, e), str |-> SubFrom(pre, b)]

\* the same sliced from the back
BackTable(sep, pre, b, e) ==
    CASE sep = "Retain" -> [res |-> SubFrom(pre, e), str |-> SubTo(pre, e)]
      [] sep = "Yield" -> [res |-> SubFrom(pre, b), str |-> SubTo(pre, b)]
      [] sep = "Split" -> [res |-> SubFrom(pre, e), str |-> SubTo(pre, b)]
      [] sep = "Conjoin" -> [res |-> SubFrom(pre, b), str |-> SubTo(pre, e)]

\* the last call matched char k: what it returned and left, against a table
TableHolds(table(_, _, _, _), k) ==
    LET want == table(last.arg.sep, last.pre, Off(k) - last.pre.ptr,
                      Off(k + 1) - last.pre.ptr)
    IN  /\ last.res = OkSome(want.res)
        /\ str = want.str

\* C5: when try_next_slice finds its first matching char u at byte b of the
\* cursor: Retain returns [0, b) and leaves the cursor at u; Yield returns
\* [0, b+|u|) and leaves it after u; Split returns [0, b) and leaves it after
\* u; Conjoin returns [0, b+|u|) and leaves it at u.
C5_SliceTable ==
    (last.op = "try_next_slice" /\ last.pre.len > 0) =>
        LET k == FirstTrue(last.arg, PreFirst, PreLast) IN
        k > 0 => TableHolds(FrontTable, k)

\* a conjoining look-ahead pattern matches at the char after a 4-byte char
C5_Witness ==
    /\ last.op = "try_next_slice"
    /\ last.arg.la = 2
    /\ last.arg.sep = "Conjoin"
    /\ last.pre.len > 0
    /\ FirstTrue(last.arg, PreFirst, PreLast) = PreFirst + 1
    /\ len_utf8(cps[PreFirst]) = 4

\* C6 (as claimed): try_next_slice_back on a non-empty cursor on every char
\* of which the test answers false returns Some(the whole cursor) and leaves
\* the cursor empty.
C6_SliceBackNoMatch ==
    (/\ last.op = "try_next_slice_back"
     /\ last.pre.len > 0
     /\ FirstTrueBack(last.arg, PreFirst, PreLast, PreLast) = 0) =>
        /\ last.res = OkSome(last.pre)
        /\ str.len = 0

\* C7: for a pattern of look-ahead length 1 whose test does not depend on the
\* call history, try_next_slice_back follows the mirrored table around the
\* last matching char u: Retain returns the text after u and leaves the
\* cursor ending with u; Yield returns u and the text after it and leaves the
\* cursor ending before u; Split returns the text after u and leaves the
\* cursor ending before u; Conjoin returns u and the text after it and leaves
\* the cursor ending with u.
C7_SliceBackTable ==
    (/\ last.op = "try_next_slice_back"
     /\ last.pre.len > 0
     /\ last.arg.kind = "char") =>
        LET k == FirstTrueBack(last.arg, PreFirst, PreLast, PreLast) IN
        k > 0 => TableHolds(BackTable, k)

\* the last matching char is a 2-byte char in the middle of the cursor
C7_Witness ==
    /\ last.op = "try_next_slice_back"
    /\ last.arg.kind = "char"
    /\ last.arg.sep = "Retain"
    /\ last.pre.len > 0
    /\ PreFirst < FirstTrueBack(last.arg, PreFirst, PreLast, PreLast)
    /\ FirstTrueBack(last.arg, PreFirst, PreLast, PreLast) < PreLast

\* the test failed during the last call: the closure that fails at call
\* errAt was called that often
TestFailed ==
    /\ last.op \in {"try_next_slice", "try_next_slice_back"}
    /\ last.arg.kind = "fn"
    /\ last.arg.errAt > 0
    /\ Len(last.calls) >= last.arg.errAt

\* C8: if the test fails during try_next_slice or try_next_slice_back, the
\* call returns that error, the test is not called again, and the cursor is
\* what it was before the call.
C8_SliceErr ==
    TestFailed =>
        /\ last.res = ErrOf(last.arg.errAt)
        /\ Len(last.calls) = last.arg.errAt
        /\ str = last.pre
        /\ mode = "iter"

\* the test fails in the second scan of try_next_slice_back, after the first
\* scan found a match
C8_Witness ==
    /\ TestFailed
    /\ last.op = "try_next_slice_back"
    /\ last.arg.errAt = 2
    /\ last.calls[1].c = last.arg.ch
    /\ last.pre.len >= 3

(***************************************************************************)
(* Claims about split sequences, checked under SplitSpec.                  *)
(***************************************************************************)
\* the items among the results rs
Items(rs) == {i \in 1..Len(rs) : rs[i].tag = "Some"}

\* C9: every next() of a split sequence on a non-empty cursor returns an
\* item and leaves a cursor that starts at a later char of the cursor it
\* found and ends where that one ended; on an empty cursor next() returns
\* None; so a sequence iterated by next() alone yields at most one item per
\* char of the text and returns None from then on.
C9_SplitProgress ==
    /\ (mode = "split" /\ last.op = "next") =>
          /\ last.pre.len = 0 =>
                /\ last.res = None
                /\ str = last.pre
          /\ last.pre.len > 0 =>
                /\ last.res.tag = "Some"
                /\ \E k \in (PreFirst + 1)..(PreLast + 1) :
                      str = SubFrom(last.pre, Off(k) - last.pre.ptr)
    /\ (mode = "split" /\ backs = <<>>) =>
          /\ Cardinality(Items(fronts)) <= Len(cps)
          /\ \A i \in 1..Len(fronts) : i > Len(cps) => fronts[i] = None

\* a Retain pattern that matches every char of a text of 3 chars: three
\* items, one char each, then None
C9_Witness ==
    /\ mode = "split"
    /\ last.op = "next"
    /\ pat.sep = "Retain"
    /\ backs = <<>>
    /\ Len(cps) = 3
    /\ Len(fronts) = 4
    /\ Items(fronts) = {1, 2, 3}
    /\ fronts[4] = None
    /\ fronts[1].s.len = 2

\* C10 (as claimed): every next_back() of a split sequence on a non-empty
\* cursor returns an item and leaves a shorter cursor.
C10_SplitBackProgress ==
    (mode = "split" /\ last.op = "next_back" /\ last.pre.len > 0) =>
        /\ last.res.tag = "Some"
        /\ str.len < last.pre.len

\* C11 (as claimed): into_substrs and into_splits both panic when given a
\* pattern whose disposition is Conjoin.
C11_ConjoinPanicsBoth ==
    (last.op \in {"into_substrs", "into_splits"} /\ last.arg.sep = "Conjoin") =>
        mode = "panic"

\* C11 (amended): into_substrs panics when given a pattern whose disposition
\* is Conjoin, and returns a split sequence over that pattern otherwise;
\* into_splits never panics and returns a split sequence whose pattern has
\* disposition Split; so no split sequence has a Conjoin pattern, and after
\* the panic nothing is yielded.
C11_ConjoinPanics ==
    /\ last.op = "into_substrs" =>
          IF last.arg.sep = "Conjoin" THEN mode = "panic"
          ELSE mode = "split" /\ pat = last.arg
    /\ last.op = "into_splits" =>
          /\ mode = "split"
          /\ pat = sep_with(last.arg, "Split")
    /\ mode = "split" => pat.sep # "Conjoin"
    /\ mode = "panic" =>
          /\ last.op = "into_substrs"
          /\ fronts = <<>>
          /\ backs = <<>>

\* into_substrs was given a Conjoin pattern over a non-empty text
C11_Witness ==
    /\ last.op = "into_substrs"
    /\ last.arg.sep = "Conjoin"
    /\ last.pre.len > 0
    /\ mode = "panic"

IsSome(r) == r.tag = "Some"

\* the views next() has yielded, in order
FrontViews == [i \in 1..Len(SelectSeq(fronts, IsSome)) |-> SelectSeq(fronts, IsSome)[i].s]

\* the views vs lie one after the other from byte 0 to the end of the text
Tiles(vs) ==
    /\ vs = <<>> => text = <<>>
    /\ vs # <<>> =>
          /\ vs[1].ptr = 0
          /\ vs[Len(vs)].ptr + vs[Len(vs)].len = Len(text)
          /\ \A i \in 1..(Len(vs) - 1) : vs[i + 1].ptr = vs[i].ptr + vs[i].len

\* a split sequence over the char pattern with disposition sep, iterated by
\* next() alone until the cursor is empty
SplitDone(sep) ==
    /\ mode = "split"
    /\ backs = <<>>
    /\ pat.kind = "char"
    /\ pat.sep = sep
    /\ str.len = 0

\* C12: forward split by a Retain char pattern cuts the text before every
\* matching char except the first char of the text: the views are non-empty
\* and tile the text, every view after the first starts with a matching
\* char, and a matching char is nowhere in a view but at its start.
C12_RetainSplit ==
    SplitDone("Retain") =>
        /\ Tiles(FrontViews)
        /\ \A i \in 1..Len(FrontViews) :
              /\ FrontViews[i].len > 0
              /\ i > 1 => cps[FirstIdx(FrontViews[i])] = pat.ch
              /\ \A j \in CharIdx(FrontViews[i]) :
                    cps[j] = pat.ch => j = FirstIdx(FrontViews[i])

\* the text starts with a matching char, which makes no cut, and has a later
\* matching char, which does
C12_Witness ==
    /\ SplitDone("Retain")
    /\ Len(cps) = 3
    /\ cps[1] = pat.ch
    /\ Len(FrontViews) = 2
    /\ Cardinality(CharIdx(FrontViews[1])) = 2

\* the views a discarding split by the char ch owes from char from on: the
\* text up to each matching char in turn, then what follows the last one
\* unless that is empty
RECURSIVE ExpectedSplits(_, _)
ExpectedSplits(ch, from) ==
    IF from > Len(cps) THEN <<>>
    ELSE IF \E m \in from..Len(cps) : cps[m] = ch THEN
        LET m == CHOOSE m \in from..Len(cps) :
                     /\ cps[m] = ch
                     /\ \A j \in from..(m - 1) : cps[j] # ch
        IN  <<View(Off(from), Off(m) - Off(from))>> \o ExpectedSplits(ch, m + 1)
    ELSE <<View(Off(from), Len(text) - Off(from))>>

\* C13: into_splits gives the pattern disposition Split whatever it declared;
\* a forward split by a Split char pattern yields, for each matching char in
\* order, the possibly empty text between the previous matching char and it,
\* then the text after the last one if that is not empty; no view contains a
\* matching char.
C13_DiscardingSplit ==
    /\ last.op = "into_splits" => pat.sep = "Split" /\ pat.kind = last.arg.kind
    /\ SplitDone("Split") =>
          /\ FrontViews = ExpectedSplits(pat.ch, 1)
          /\ \A i \in 1..Len(FrontViews) :
                \A j \in CharIdx(FrontViews[i]) : cps[j] # pat.ch

\* a char, then two matching chars in a row: an empty view between the two
\* and no view after the last
C13_Witness ==
    /\ SplitDone("Split")
    /\ Len(cps) = 3
    /\ cps[1] # pat.ch
    /\ cps[2] = pat.ch
    /\ cps[3] = pat.ch
    /\ Len(FrontViews) = 2
    /\ FrontViews[2].len = 0

\* C14: forward split by a Yield char pattern cuts the text after every
\* matching char: the views are non-empty and tile the text, every view but
\* the last ends with a matching char, a matching char is nowhere in a view
\* but at its end, and a text that ends with a matching char yields no empty
\* view after it.
C14_YieldSplit ==
    SplitDone("Yield") =>
        /\ Tiles(FrontViews)
        /\ \A i \in 1..Len(FrontViews) :
              /\ FrontViews[i].len > 0
              /\ i < Len(FrontViews) => cps[LastIdx(FrontViews[i])] = pat.ch
              /\ \A j \in CharIdx(FrontViews[i]) :
                    cps[j] = pat.ch => j = LastIdx(FrontViews[i])

\* the text starts and ends with a matching char: two views, then None
C14_Witness ==
    /\ SplitDone("Yield")
    /\ Len(cps) = 3
    /\ cps[1] = pat.ch
    /\ cps[2] # pat.ch
    /\ cps[3] = pat.ch
    /\ Len(FrontViews) = 2
    /\ Len(fronts) = 3
    /\ fronts[3] = None

(***************************************************************************)
(* Claims about splitting by an Interval, checked under IntervalSpec.      *)
(***************************************************************************)
\* the lengths an Interval was made with, from its cumulative lengths
Lengths(p) ==
    [i \in 1..Len(p.interval) |->
        p.interval[i] - (IF i = 1 THEN 0 ELSE p.interval[i - 1])]

\* the segment of the cycle, and what is left of it, o chars after the start
\* of segment i
RECURSIVE EnterAt(_, _, _)
EnterAt(ls, i, o) ==
    IF o < ls[i] THEN [i |-> i, left |-> ls[i] - o]
    ELSE EnterAt(ls, (i % Len(ls)) + 1, o - ls[i])

\* the lengths of the pieces n chars fall into, left chars of segment i
\* coming first and the segments following in cyclic order
RECURSIVE CycleLens(_, _, _, _)
CycleLens(ls, i, left, n) ==
    IF n = 0 THEN <<>>
    ELSE IF n <= left THEN <<n>>
    ELSE <<left>> \o CycleLens(ls, (i % Len(ls)) + 1, ls[(i % Len(ls)) + 1], n - left)

\* the number of chars of each view next() has yielded
FrontLens == [i \in 1..Len(FrontViews) |-> Cardinality(CharIdx(FrontViews[i]))]

\* a sequence split by an Interval of offset adv, iterated by next() alone
\* until the cursor is empty
IntervalDone ==
    /\ mode = "split"
    /\ backs = <<>>
    /\ pat.kind = "interval"
    /\ pat.sep = "Yield"
    /\ str.len = 0

\* C15: forward split by an Interval of lengths l0..lk and offset adv >= 0
\* yields views that tile the text and whose lengths in chars are those of
\* the cycle l0, l1, .., lk, l0, .. entered adv chars in (so adv mod the
\* period chars into the period), the last view alone possibly shorter.
C15_IntervalSplit ==
    (IntervalDone /\ pat.adv >= 0) =>
        /\ Tiles(FrontViews)
        /\ FrontLens = CycleLens(Lengths(pat), EnterAt(Lengths(pat), 1, pat.adv).i,
                                 EnterAt(Lengths(pat), 1, pat.adv).left, Len(cps))

\* interval!(2, 1 => 4) over 7 chars: a, b, cd, e, fg
C15_Witness ==
    /\ IntervalDone
    /\ pat.adv = 4
    /\ pat.interval = <<2, 3>>
    /\ Len(cps) = 7
    /\ FrontLens = <<1, 1, 2, 1, 2>>

\* C16: forward split by an Interval of lengths l0..lk and offset adv < 0
\* yields a first view of |adv| chars, or the whole text if that is shorter,
\* and after it views of lengths l0, l1, .., lk, l0, .., the last view alone
\* possibly shorter; the views tile the text.
C16_IntervalSkip ==
    (IntervalDone /\ pat.adv < 0) =>
        /\ Tiles(FrontViews)
        /\ FrontLens =
              (IF Len(cps) <= -pat.adv THEN CycleLens(<<-pat.adv>>, 1, -pat.adv, Len(cps))
               ELSE <<-pat.adv>> \o CycleLens(Lengths(pat), 1, Lengths(pat)[1],
                                              Len(cps) + pat.adv))

\* interval!(2, 1 => -4) over 7 chars: abcd, ef, g
C16_Witness ==
    /\ IntervalDone
    /\ pat.adv = -4
    /\ pat.interval = <<2, 3>>
    /\ Len(cps) = 7
    /\ FrontLens = <<4, 2, 1>>

(***************************************************************************)
(* Claims about merge.rs                                                   *)
(***************************************************************************)
\* the view v lies inside the view p
Inside(v, p) == p.ptr <= v.ptr /\ v.ptr + v.len <= p.ptr + p.len

\* the byte offset just after the view v
EndOf(v) == v.ptr + v.len

\* the view from the start of a to the end of b
Span(a, b) == View(a.ptr, EndOf(b) - a.ptr)

\* what C17 says of merge(p, a, b) = res
MergeContract(p, a, b, res) ==
    /\ (res.tag = "Some") <=>
           (Inside(a, p) /\ b.ptr = EndOf(a) /\ EndOf(b) <= EndOf(p))
    /\ res.tag = "Some" => res.s = Span(a, b)
    \* a gap
    /\ EndOf(a) < b.ptr => res = None
    \* a byte in both views
    /\ CharIdx(a) \cap CharIdx(b) # {} => res = None
    \* a view outside the parent
    /\ ~Inside(a, p) \/ ~Inside(b, p) => res = None
    \* two non-empty adjacent views in the wrong order
    /\ a.len > 0 /\ b.len > 0 /\ a.ptr = EndOf(b) => res = None

\* C17: merge(parent, first, second) returns Some(v) if and only if first
\* lies inside parent, second begins at the byte where first ends and the
\* combined span ends inside parent, and v is then the view from the start of
\* first to the end of second; it returns None for a gap, for overlapping
\* views, for a view outside parent and for two non-empty adjacent views in
\* the wrong order.
C17_Merge ==
    last.op = "merge" =>
        MergeContract(parent, last.arg[1], last.arg[2], last.res)

\* two non-empty adjacent views are merged
C17_Witness ==
    /\ last.op = "merge"
    /\ last.res.tag = "Some"
    /\ last.arg[1].len > 0
    /\ last.arg[2].len > 0
    /\ last.res.s = Span(last.arg[1], last.arg[2])

\* every view of vs begins where the one before it ends
AllAdjacent(vs) == \A i \in 2..Len(vs) : vs[i].ptr = EndOf(vs[i - 1])

\* the view from the start of the first view of vs to the end of its last
SpanAll(vs) == Span(vs[1], vs[Len(vs)])

\* what C18 says of merge_all over the views vs with parent p
MergeAllContract(p, vs, res) ==
    /\ Len(vs) >= 1 /\ AllAdjacent(vs) /\ (\A i \in 1..Len(vs) : Inside(vs[i], p))
           => res = SomeStr(SpanAll(vs))
    /\ ~AllAdjacent(vs) => res = None
    /\ res.tag = "Some" => res.s = SpanAll(vs)

\* C18: merge_all returns Some(the span from the start of the first view to
\* the end of the last) when every view begins where the one before it ends,
\* inside parent; it returns None when one consecutive pair is not adjacent,
\* whatever comes before or after the pair; and a Some it returns is never
\* the merge of a part of the views.
C18_MergeAll ==
    last.op = "merge_all" => MergeAllContract(parent, last.arg, last.res)

\* three views that tile a text of two chars are merged into the text
C18_Witness ==
    /\ last.op = "merge_all"
    /\ Len(last.arg) = 3
    /\ Len(cps) = 2
    /\ last.res = SomeStr(View(0, Len(text)))

\* the last of three views is not adjacent, the first two are: None
C18_WitnessNone ==
    /\ last.op = "merge_all"
    /\ Len(last.arg) = 3
    /\ merge(parent, last.arg[1], last.arg[2]).tag = "Some"
    /\ last.arg[3].ptr # EndOf(last.arg[2])
    /\ last.res = None

\* the calls of the predicate made by the last call of MergeIter::next
PredCalls == {last.calls[i] : i \in 1..Len(last.calls)}

\* the call c was made for the view after the ones taken, and that view
\* begins where the running merged view ends, inside the parent
CalledOnAdjacent(c) ==
    /\ c.b = iter.items[c.idx]
    /\ c.b.ptr = EndOf(c.curr)
    /\ Inside(c.curr, parent)
    /\ Inside(c.b, parent)

\* C19 as stated: the predicate is called only for a next view that is
\* byte-adjacent to the running merged view, and its arguments are the
\* running merged view and the next view.
C19_PredicateRunning ==
    last.op = "merge_iter_next" =>
        \A c \in PredCalls : CalledOnAdjacent(c) /\ c.a = c.curr

\* C19: the predicate is called only for a next view that is byte-adjacent
\* to the running merged view, and its arguments are the view given just
\* before the next view (the last view taken into the running merged view)
\* and the next view.
C19_PredicateLast ==
    last.op = "merge_iter_next" =>
        \A c \in PredCalls : CalledOnAdjacent(c) /\ c.a = iter.items[c.idx - 1]

\* the predicate is called after a merge of two non-empty views: its first
\* argument is the second of them, not the merged view
C19_Witness ==
    /\ last.op = "merge_iter_next"
    /\ \E c \in PredCalls : /\ c.idx = 3
                             /\ c.a = iter.items[2]
                             /\ c.a.len > 0
                             /\ c.curr = Span(iter.items[1], iter.items[2])
                             /\ c.curr.len > c.a.len

(***************************************************************************)
(* Claims about the trims                                                  *)
(***************************************************************************)
\* pattern p tested on chars i, i+1, .. hi in turn, each with its own view:
\* the number of chars it answers true on before its first false
RECURSIVE TrueRun(_, _, _)
TrueRun(p, i, hi) ==
    IF i > hi THEN 0
    ELSE IF matches(p, cps[i], RefView(i, 1, hi)).ret.val
         THEN 1 + TrueRun(matches(p, cps[i], RefView(i, 1, hi)).p, i + 1, hi)
         ELSE 0

\* the calls made are the test of the chars lo, lo+1, .. in turn: true on the
\* first k of them and, when there is a char after these, false on it
CalledInTurn(calls, lo, hi, k) ==
    /\ Len(calls) = (IF lo + k <= hi THEN k + 1 ELSE k)
    /\ \A i \in 1..Len(calls) :
           calls[i] = TrimCall(cps[lo + i - 1], RefView(lo + i - 1, 1, hi), i <= k)

\* the cursor pre, of chars lo..hi, lost its first k chars and nothing else
TrimmedFront(pre, lo, k) ==
    /\ str.ptr = Off(lo + k)
    /\ EndOf(str) = EndOf(pre)

\* what C20 says of a trim_start_by that made the calls on the cursor pre of
\* chars lo..hi, of which the pattern answers true on the first k
TrimStartContract(pre, calls, lo, hi, k) ==
    /\ TrimmedFront(pre, lo, k)
    /\ CalledInTurn(calls, lo, hi, k)
    /\ \/ str.len = 0
       \/ /\ calls[Len(calls)].ret = FALSE
          /\ calls[Len(calls)].s.ptr = str.ptr

\* C20: trim_start_by(p) removes the longest prefix of the cursor all of
\* whose chars make p's test return true: afterwards the cursor is empty or
\* its first char failed the test, the test was called on successive chars
\* from the front and stopped at the first false, and nothing is removed
\* from the back.
C20_TrimStart ==
    last.op = "trim_start_by" =>
        IF last.pre.len = 0 THEN str = last.pre /\ last.calls = <<>>
        ELSE TrimStartContract(last.pre, last.calls, PreFirst, PreLast,
                               TrueRun(last.arg, PreFirst, PreLast))

\* a char is trimmed off a cursor that ends before the end of the text, and
\* a char that failed the test is left
C20_Witness ==
    /\ last.op = "trim_start_by"
    /\ EndOf(last.pre) < Len(text)
    /\ Len(last.calls) = 2
    /\ str.ptr > last.pre.ptr
    /\ str.len > 0

\* pattern p tested on chars hi, hi-1, .. lo in turn, each with its own view:
\* the number of chars it answers true on before its first false
RECURSIVE TrueRunBack(_, _, _)
TrueRunBack(p, lo, i) ==
    IF i < lo THEN 0
    ELSE IF matches(p, cps[i], RefView(i, 1, i)).ret.val
         THEN 1 + TrueRunBack(matches(p, cps[i], RefView(i, 1, i)).p, lo, i - 1)
         ELSE 0

\* the calls made are the test of the chars hi, hi-1, .. in turn: true on the
\* first k of them and, when there is a char before these, false on it
CalledInTurnBack(calls, lo, hi, k) ==
    /\ Len(calls) = (IF hi - k >= lo THEN k + 1 ELSE k)
    /\ \A i \in 1..Len(calls) :
           calls[i] = TrimCall(cps[hi - i + 1], RefView(hi - i + 1, 1, hi), i <= k)

\* what C21 says of a trim_end_by that made the calls on the cursor pre of
\* chars lo..hi, of which the pattern answers true on the last k
TrimEndContract(pre, calls, lo, hi, k) ==
    /\ mode = "iter"
    /\ str = View(pre.ptr, Off(hi - k + 1) - pre.ptr)
    /\ CalledInTurnBack(calls, lo, hi, k)

\* C21: trim_end_by(p) removes the longest suffix of the cursor all of whose
\* chars make p's test return true: a cursor whose last char fails the test
\* is left unchanged, a cursor of matching chars becomes empty, an empty
\* cursor stays empty, and the test is called on the trailing chars
\* themselves, last one first.
C21_TrimEnd ==
    last.op = "trim_end_by" =>
        IF last.pre.len = 0 THEN mode = "iter" /\ str = last.pre /\ last.calls = <<>>
        ELSE TrimEndContract(last.pre, last.calls, PreFirst, PreLast,
                             TrueRunBack(last.arg, PreFirst, PreLast))

(***************************************************************************)
(* Claims about the calls of the pattern                                   *)
(***************************************************************************)
\* the operations that call Pattern::matches
PatternOps ==
    {"try_next_slice", "try_next_slice_back", "next", "next_back",
     "trim_start_by", "trim_end_by"}

\* the call c of matches(c, s) was given a view that begins with the char
CallOnFirstChar(c) ==
    /\ CharIdx(c.s) # {}
    /\ c.s.ptr = Off(FirstIdx(c.s))
    /\ c.c = cps[FirstIdx(c.s)]

\* C22: every time a slice, split or trim operation calls
\* pattern.matches(c, s), forward or backward and for any look-ahead length,
\* c is the first char of s.
C22_TestOnFirstChar ==
    last.op \in PatternOps =>
        \A i \in 1..Len(last.calls) : CallOnFirstChar(last.calls[i])

(***************************************************************************)
(* Claims about look-ahead                                                 *)
(***************************************************************************)
\* the item of a look-ahead of length len for char i of a cursor that ends
\* with char hi
LookAheadItem(i, len, hi) == Some(cps[i], RefView(i, len, hi))

\* the index in cps of the char that begins at byte b, Len(cps) + 1 for the
\* end of the text
CharAt(b) == CHOOSE i \in 1..(Len(cps) + 1) : Off(i) = b

\* the last call, LookAhead::next, gave the item of the first char of the
\* cursor and took that char off, or gave None on an empty cursor
LookAheadStep ==
    IF last.pre.len = 0 THEN last.res = None /\ str = last.pre
    ELSE /\ last.res = LookAheadItem(PreFirst, lookahead, PreLast)
         /\ str = SubFrom(last.pre, Off(PreFirst + 1) - last.pre.ptr)

\* the items given so far by LookAhead::next alone are those of the chars
\* from char lo on, in order, for a cursor that ends with char hi
LookAheadItems(lo, hi) ==
    /\ \A i \in 1..Len(fronts) : fronts[i] = LookAheadItem(lo + i - 1, lookahead, hi)
    /\ str.ptr = Off(lo + Len(fronts))
    /\ last.res = None => lo + Len(fronts) = hi + 1

\* the calls of the test try_next_slice made are on the chars i, i+1, .. of the
\* cursor that ends with char hi, each with the look-ahead item of that char
SliceCallsLookAhead(calls, lo, len, hi) ==
    \A i \in 1..Len(calls) :
        calls[i] = Call(cps[lo + i - 1], RefView(lo + i - 1, len, hi))

\* C23: a forward look-ahead of length L >= 1 over n chars yields n items,
\* one per char in order; item i is char i with the view of the min(L, n-i+1)
\* chars from char i on, so the last items carry shorter views and the
\* sequence does not stop early.  A pattern of look-ahead length L given to
\* try_next_slice is called with these views.
C23_LookAhead ==
    /\ last.op = "look_ahead_next" => LookAheadStep
    /\ (last.op = "look_ahead_next" /\ backs = <<>>) =>
           LookAheadItems(CharAt(str.ptr) - Len(fronts), CharAt(EndOf(str)) - 1)
    /\ (last.op = "try_next_slice" /\ last.pre.len > 0) =>
           SliceCallsLookAhead(last.calls, PreFirst, last.arg.la, PreLast)

\* a look-ahead of 2 over three chars gave three items and then None
C23_Witness ==
    /\ last.op = "look_ahead_next"
    /\ last.res = None
    /\ lookahead = 2
    /\ backs = <<>>
    /\ Len(fronts) = 3
    /\ fronts[3].s = RefView(3, 1, 3)
    /\ fronts[2].s = RefView(2, 2, 3)

\* try_next_slice called a pattern of look-ahead 2 on the last char, with a
\* view of that char alone
C23_WitnessSlice ==
    /\ last.op = "try_next_slice"
    /\ last.arg.la = 2
    /\ Len(last.calls) = 3
    /\ last.calls[3].s = RefView(3, 1, 3)

(***************************************************************************)
(* Claims about the integer pattern                                        *)
(***************************************************************************)
\* what the pattern p answers on its k-th call from now
RECURSIVE AnswerAt(_, _)
AnswerAt(p, k) ==
    IF k = 1 THEN matches(p, 0, View(0, 0)).ret.val
    ELSE AnswerAt(matches(p, 0, View(0, 0)).p, k - 1)

\* the integer pattern n answers true on its (n+1)-th call and on no other
\* of its first n + 1 + MaxCount calls
TrueOnce(n) ==
    \A k \in 1..(n + 1 + MaxCount) : AnswerAt(IsizePat(n), k) = (k = n + 1)

\* C24: on a non-empty cursor, next_slice(n) with the integer pattern n >= 0
\* returns Some(v), v being the view peekn(n) carries on the same cursor (the
\* first n chars, or all the cursor when it has fewer), and leaves the cursor
\* without v at its front; the pattern's test answers true on one call only,
\* the (n+1)-th.
C24_IsizeSlice ==
    (/\ last.op = "try_next_slice"
     /\ last.arg.kind = "isize"
     /\ last.arg.n >= 0
     /\ last.pre.len > 0) =>
        /\ unwrap(last.res) = SomeStr(peekn(last.pre, last.arg.n).s)
        /\ unwrap(last.res) = SomeStr(RefView(PreFirst, last.arg.n, PreLast))
        /\ str = SubFrom(last.pre, unwrap(last.res).s.len)
        /\ TrueOnce(last.arg.n)

\* next_slice(2) on a cursor of three chars, the first of them of 2 bytes
C24_Witness ==
    /\ last.op = "try_next_slice"
    /\ last.arg = IsizePat(2)
    /\ Len(cps) = 3
    /\ cps[1] = 233
    /\ last.pre = View(0, Len(text))
    /\ unwrap(last.res) = SomeStr(View(0, Off(3)))
    /\ str = View(Off(3), Len(text) - Off(3))

(***************************************************************************)
(* Claims about the cursor                                                 *)
(***************************************************************************)
\* byte b of the text is a char boundary
OnBoundary(b) == \E i \in 1..(Len(cps) + 1) : Off(i) = b

\* the view v lies in the text, from a char boundary to a char boundary
WholeChars(v) == v.len >= 0 /\ OnBoundary(v.ptr) /\ OnBoundary(EndOf(v))

\* C25: after any sequence of cursor operations on a cursor over valid
\* text, the cursor is a contiguous part of the text from a char boundary to
\* a char boundary, it does not extend beyond what it was before the last
\* operation, and every view returned lies within the text on char
\* boundaries.
C25_CursorOnBoundaries ==
    /\ WholeChars(str)
    /\ last.op # "new" => Inside(str, last.pre)
    /\ \A i \in 1..Len(fronts) : WholeChars(fronts[i].s)
    /\ \A i \in 1..Len(backs) : WholeChars(backs[i].s)

(***************************************************************************)
(* Claims about the calls a split sequence makes                           *)
(***************************************************************************)
\* a forward split by a Retain pattern of look-ahead length 1, after at least
\* one next()
RetainSplitting ==
    /\ mode = "split"
    /\ backs = <<>>
    /\ pat.sep = "Retain"
    /\ pat.la = 1
    /\ count > 0

\* the tests made so far are one test of each of the first k chars, in order
TestedOnce(k) ==
    /\ Len(tests) = k
    /\ \A i \in 1..k : tests[i] = Call(cps[i], RefView(i, 1, Len(cps)))

\* C26: in a forward split by a Retain pattern of look-ahead length 1 the
\* test is called once on every char of the text, in text order: the first
\* next() calls it on the first char and ignores the answer, and every later
\* next() skips the char at the front of the cursor, the separator the call
\* before matched, without testing it again; so every view yielded holds at
\* least its first char.
C26_RetainTestsOnce ==
    RetainSplitting =>
        /\ TestedOnce(IF str.len = 0 THEN Len(cps) ELSE CharAt(str.ptr))
        /\ \A i \in Items(fronts) : fronts[i].s.len > 0
        /\ Len(cps) > 0 => fronts[1] = SomeStr(View(0, fronts[1].s.len))
        /\ last.res = None => TestedOnce(Len(cps))

\* a text of three matching chars was split to its end: three views, and
\* three tests
C26_Witness ==
    /\ RetainSplitting
    /\ pat.kind = "char"
    /\ cps = <<pat.ch, pat.ch, pat.ch>>
    /\ last.res = None
    /\ Len(fronts) = 4
    /\ Len(tests) = 3

\* the calls are tests of the chars hi, hi-1, .. in turn, one each
BackScanOnce(calls, lo, hi) ==
    /\ Len(calls) <= hi - lo + 1
    /\ \A i \in 1..Len(calls) : calls[i].c = cps[hi - i + 1]
    /\ \A i \in 1..Len(calls) : calls[i].s.ptr = Off(hi - i + 1)

\* C27: within one try_next_slice_back the test is called on successive
\* chars from the back of the cursor, at most once per char, and not again
\* after it answered true; the boundary used is where the test first
\* answered true in that one scan.
C27_BackScanOnce ==
    (last.op = "try_next_slice_back" /\ last.pre.len > 0) =>
        /\ BackScanOnce(last.calls, PreFirst, PreLast)
        /\ last.arg.la = 1 /\ last.res.tag = "OkSome" =>
               \A i \in 1..(Len(last.calls) - 1) :
                   ~AnswerAt(last.arg, i)

(***************************************************************************)
(* Claims about MergeIter                                                  *)
(***************************************************************************)
\* the item it is built from the views lo..hi given: a run of views each
\* adjacent to the one before, merged
IsRun(it, lo, hi) ==
    /\ lo <= hi
    /\ AllAdjacent(SubSeq(iter.items, lo, hi))
    /\ it = SomeStr(Span(iter.items[lo], iter.items[hi]))

\* the run of views lo..hi cannot take the view after it
MaximalRun(lo, hi) ==
    hi < Len(iter.items) =>
        merge(parent, Span(iter.items[lo], iter.items[hi]), iter.items[hi + 1]) = None

\* the ways to cut the views taken into the runs the results so far are
\* built from: result i is built from the views c[i-1]+1 .. c[i]
Cuts ==
    {c \in [0..Len(fronts) -> 0..Len(iter.items)] :
        /\ c[0] = 0
        /\ c[Len(fronts)] = iter.pos
        /\ \A i \in 1..Len(fronts) :
               IF fronts[i] = None THEN c[i] = c[i - 1]
               ELSE IsRun(fronts[i], c[i - 1] + 1, c[i])}

\* C28: every call of MergeIter::next returns, for every predicate and
\* every input: when the predicate rejects an adjacent pair the views merged
\* so far are returned as one item and the rejected view starts the next
\* item; over a finite input every view given ends up in one item, and with
\* the predicate that is always true the items are the maximal runs of
\* adjacent views.
C28_MergeIterReturns ==
    mode \in {"merge", "hang"} =>
        /\ mode # "hang"
        /\ Cuts # {}
        /\ (last.op = "merge_iter_next" /\ last.res = None) =>
               iter.pos = Len(iter.items)
        /\ predicate.kind = "true" =>
               \E c \in Cuts : \A i \in Items(fronts) : MaximalRun(c[i - 1] + 1, c[i])

(***************************************************************************)
(* Claims about look-ahead from the back                                   *)
(***************************************************************************)
\* the item of a look-ahead of length len from the back for char i of a
\* cursor of chars lo..: char i with the view of the last len chars up to it
LookAheadBackItem(lo, len, i) ==
    Some(cps[i], View(Off(IF i - len + 1 >= lo THEN i - len + 1 ELSE lo),
                      Off(i + 1) - Off(IF i - len + 1 >= lo THEN i - len + 1 ELSE lo)))

\* C29: LookAhead::next_back with length L takes the last char off the
\* cursor and yields it with the view of the last min(L, remaining) chars;
\* so the chars come in reverse order and the front of the cursor is left as
\* it was.
C29_LookAheadBack ==
    (last.op = "look_ahead_next_back" /\ last.pre.len > 0) =>
        /\ last.res = LookAheadBackItem(PreFirst, lookahead, PreLast)
        /\ str.len = Off(PreLast) - last.pre.ptr
        /\ str.len > 0 => str.ptr = last.pre.ptr

(***************************************************************************)
(* Claims about splitting and merging together                             *)
(***************************************************************************)
\* a forward split of a non-empty text by a Retain or Yield pattern
KeepingSplit ==
    /\ mode = "split"
    /\ backs = <<>>
    /\ pat.sep \in {"Retain", "Yield"}
    /\ Len(cps) > 0

\* the views vs are non-empty and lie one after the other from byte 0 to
\* byte e
TilesUpTo(vs, e) ==
    /\ \A i \in 1..Len(vs) : vs[i].len > 0
    /\ \A i \in 1..Len(vs) : vs[i].ptr = (IF i = 1 THEN 0 ELSE EndOf(vs[i - 1]))
    /\ vs # <<>> => EndOf(vs[Len(vs)]) = e

\* C30: in a forward split of a non-empty text T by a Retain or Yield
\* pattern, stateful or not, every view yielded is non-empty, each begins at
\* the byte where the one before ended, the first begins at the start of T
\* and the last ends at the end of T; so merge_all over the views with parent
\* T returns Some(T).
C30_SplitMerges ==
    KeepingSplit =>
        /\ TilesUpTo(FrontViews, str.ptr)
        /\ (count > 0 /\ str.len = 0) =>
               /\ TilesUpTo(FrontViews, Len(text))
               /\ merge_all(FrontViews, View(0, Len(text))) = SomeStr(View(0, Len(text)))

\* a text of three chars split by an Interval into two views that merge into
\* the text
C30_Witness ==
    /\ KeepingSplit
    /\ pat.kind = "interval"
    /\ Len(cps) = 3
    /\ str.len = 0
    /\ Len(FrontViews) = 2
    /\ merge_all(FrontViews, View(0, Len(text))) = SomeStr(View(0, Len(text)))

\* the same for a Retain pattern of look-ahead length 2
C30_WitnessRetain ==
    /\ KeepingSplit
    /\ pat.kind = "str"
    /\ pat.sep = "Retain"
    /\ str.len = 0
    /\ Len(FrontViews) = 2
    /\ merge_all(FrontViews, View(0, Len(text))) = SomeStr(View(0, Len(text)))
====
